---------------------------- MODULE Spec2Model ----------------------------
(***************************************************************************)
(* Model of the SAAM agent orchestrator (P0S31DON-AI).                     *)
(*                                                                         *)
(*   MET  - ModuloEjecucionTareas (src/src/sistema/met.py): one task is    *)
(*          validated, dispatched to its tool and, on error, handed to     *)
(*          _manejar_error.                                                *)
(*   ORC  - NucleoSAAM (src/src/sistema/core.py): the PERA cycle of one    *)
(*          goal: planning, execution, recording, learning.                *)
(*   PLN  - ValidadorOptimizadorPlanes (src/src/sistema/mcp_validacion.py) *)
(*          plan validation and sequence optimisation.                     *)
(*                                                                         *)
(* Python coroutines run without interruption between two awaits, so each  *)
(* action is the code between two suspension points.                       *)
(***************************************************************************)
EXTENDS Integers, Sequences, FiniteSets, TLC

(***************************************************************************)
(* Bounds of the model.                                                    *)
(***************************************************************************)
MaxReintentosTarea == 1
MaxReintentoCtx == 1
MaxFallos == 2
MaxTareas == 3
MaxDeps == 1

(***************************************************************************)
(* Program constants.                                                      *)
(***************************************************************************)
MaxReintentosDefault == 3
MaxIntentosReplanificacion == 3

Ausente == -1

VARIABLES
    met_pc,            \* position of the ejecutar_tarea coroutine
    met_tarea,         \* the tarea argument
    met_ctx,           \* the contexto argument (the dict is shared by all recursive calls)
    met_error,         \* the exception bound to e in the except block
    met_prof,          \* number of ejecutar_tarea frames suspended in _manejar_error
    met_res,           \* the record being returned by the innermost frame
    met_salida,        \* what the outermost call delivered to its caller
    met_guion,         \* how the selected tool behaves on its successive invocations
    met_hist,          \* outcomes of the tool invocations of this call, oldest first
    met_validaciones,  \* number of times _validar_tarea ran in this call
    met_sleeps,        \* number of asyncio.sleep calls of this call
    met_estado,        \* tareas_activas[tarea_id]['estado']
    met_metricas       \* metricas_ejecucion

varsMET == <<met_pc, met_tarea, met_ctx, met_error, met_prof, met_res, met_salida,
             met_guion, met_hist, met_validaciones, met_sleeps, met_estado, met_metricas>>

VARIABLES
    orc_pc,            \* position of the procesar_objetivo coroutine
    orc_plan,          \* plan['tareas'] as returned by the planner
    orc_idx,           \* position of the for loop of _fase_ejecucion in orc_plan
    orc_despachadas,   \* the tasks handed to met.ejecutar_tarea, in order
    orc_resultados,    \* resultados_tareas
    orc_eventos,       \* start and end of every ejecutar_tarea call, in order
    orc_error,         \* the exception caught by procesar_objetivo
    orc_salida,        \* what procesar_objetivo delivered to its caller
    episodios,         \* the Episodic Log
    aprendizaje,       \* episode ids for which _fase_aprendizaje was scheduled
    wm,                \* keys of the session in the Working Store
    pln_candidato,     \* the plan the planner is validating
    pln_errores,       \* errores of the last validar_plan
    pln_intentos       \* replanning attempts made

varsORC == <<orc_pc, orc_plan, orc_idx, orc_despachadas, orc_resultados, orc_eventos,
             orc_error, orc_salida, episodios, aprendizaje, wm>>

varsPLN == <<pln_candidato, pln_errores, pln_intentos>>

VARIABLES
    tmo_pc,            \* position of one _ejecutar_con_timeout call
    tmo_asincrona,     \* asyncio.iscoroutinefunction(herramienta)
    tmo_duracion,      \* how long the tool runs
    tmo_timeout,       \* the deadline of the task
    tmo_espera,        \* how long the engine has been waiting for the tool
    tmo_desenlace      \* how the call ended

varsTMO == <<tmo_pc, tmo_asincrona, tmo_duracion, tmo_timeout, tmo_espera, tmo_desenlace>>

VARIABLES
    mt_reloj,          \* time.time()
    mt_almacen,        \* keys of MemoriaTrabajo._almacen
    mt_ts_acceso,      \* _timestamp_acceso
    mt_ts_creacion,    \* _timestamp_creacion
    mt_timers,         \* pending threading.Timer objects: the key, the time each is due
                       \* and the time of the guardar that started it
    mt_lectura         \* the last obtener: its key, what it returned, the age of the entry

varsMT == <<mt_reloj, mt_almacen, mt_ts_acceso, mt_ts_creacion, mt_timers, mt_lectura>>

VARIABLES
    val_pc,            \* position of a validate / optimise / validate sequence
    val_plan,          \* the plan submitted to validar_plan
    val_res,           \* what validar_plan answered for val_plan
    val_opt,           \* optimizar_plan(val_plan)
    val_res2           \* what validar_plan answered for val_opt

varsVAL == <<val_pc, val_plan, val_res, val_opt, val_res2>>

VARIABLES
    epi_tabla,         \* the episodios table: the row stored under each primary key
    epi_entrada,       \* the dict handed to the last guardar_episodio, as the call left it
    epi_origen,        \* who built that dict
    epi_ret,           \* what the last guardar_episodio returned, or that it raised
    epi_generados,     \* number of ids made by _generar_id_episodio
    epi_leido          \* the last obtener_episodio: the id asked for and the answer

varsEPI == <<epi_tabla, epi_entrada, epi_origen, epi_ret, epi_generados, epi_leido>>

VARIABLES
    idx_indices,       \* IndexadorEpisodios.indices: five maps from a key to its posting list
    idx_episodios,     \* the episodes handed to indexar_episodio, in order
    idx_busqueda       \* the last buscar_episodios since the indices changed: criteria and ids returned

varsIDX == <<idx_indices, idx_episodios, idx_busqueda>>

VARIABLES
    msg_pc,            \* position of wrapper_callback for the message being consumed
    msg_auto_ack,      \* the auto_ack argument of consumir_mensajes
    msg_falla,         \* whether decoding or the callback raises for this message
    msg_procesado,     \* the message's processed flag, set by ack, nack and reject
    msg_acks,          \* basic.ack frames sent for this message
    msg_nacks,         \* basic.nack frames sent for this message, all with requeue=False
    msg_error,         \* the exception that leaves wrapper_callback
    msg_hist           \* how the earlier messages ended, oldest first

varsMSG == <<msg_pc, msg_auto_ack, msg_falla, msg_procesado, msg_acks, msg_nacks,
             msg_error, msg_hist>>

VARIABLES
    hb_metricas,       \* HerramientaBase.metricas: the three execution counters
    hb_llamadas,       \* ejecutar_segura calls made on the tool
    hb_en_curso,       \* calls suspended in "await self.ejecutar(...)"
    hb_retornos        \* the 'exito' of every record returned, oldest first

varsHB == <<hb_metricas, hb_llamadas, hb_en_curso, hb_retornos>>

VARIABLES
    ap_pc,             \* position of _ejecutar_ciclo_completo
    ap_desenlaces,     \* how each analysis coroutine ended, "pendiente" while it runs
    ap_resultados,     \* resultados_analisis, the dict _ejecutar_analisis_paralelos returns
    ap_recomendaciones,\* the analyses whose output gave rise to a recommendation
    ap_optimizado,     \* whether _aplicar_optimizaciones was called
    ap_error           \* the exception that left _ejecutar_ciclo_completo

varsAP == <<ap_pc, ap_desenlaces, ap_resultados, ap_recomendaciones, ap_optimizado, ap_error>>

VARIABLES
    pref_pc,           \* position of aplicar_optimizaciones
    pref_almacen,      \* the Knowledge Store: herramienta_preferida of each task type
    pref_optimizaciones, \* the optimizaciones argument, the same for both runs
    pref_corrida,      \* 1 for the first aplicar_optimizaciones, 2 for the re-run
    pref_pendientes,   \* the items of optimizaciones the for loop has not reached
    pref_tipo,         \* the task type of the current iteration
    pref_actual,       \* herramienta_actual as _obtener_herramienta_actual returned it
    pref_cambios,      \* cambios_aplicados of each run: the task types it holds
    pref_escrituras    \* the actualizar_preferencia_herramienta calls that succeeded

varsPREF == <<pref_pc, pref_almacen, pref_optimizaciones, pref_corrida, pref_pendientes,
              pref_tipo, pref_actual, pref_cambios, pref_escrituras>>

VARIABLES
    hab_alpha,         \* config['alpha_metricas'] in tenths, Ausente when not configured
    hab_base,          \* the stored skill: metricas_rendimiento and estadisticas_uso
    hab_pc,            \* position of registrar_ejecucion
    hab_llamada,       \* the arguments of the call in progress and the skill it read
    hab_registros,     \* the number of registrar_ejecucion calls made
    hab_ultimo         \* the last recorded execution: outcome, rate before, rate after

varsHAB == <<hab_alpha, hab_base, hab_pc, hab_llamada, hab_registros, hab_ultimo>>

VARIABLES
    hib_pc,                \* position of descomponer_hibrido
    hib_plan_habilidades,  \* the local plan_habilidades, SinAsignar while unbound
    hib_plan_razonamiento, \* the local plan_razonamiento
    hib_retorno            \* what descomponer_hibrido returned or raised

varsHIB == <<hib_pc, hib_plan_habilidades, hib_plan_razonamiento, hib_retorno>>

VARIABLES
    reg_herramientas,  \* herramientas_registradas: the metricas of each registered tool
    reg_categorias,    \* categorias_herramientas: the names appended to each category
    reg_registros,     \* the number of registrar_herramienta calls made
    reg_lista          \* what obtener_herramientas_por_tipo_tarea returned last

varsREG == <<reg_herramientas, reg_categorias, reg_registros, reg_lista>>

VARIABLES
    rty    \* one ejecutar_con_reintentos call: its position, the strategy,
           \* reintento_actual, the delays slept so far and how it ended

varsRTY == <<rty>>

VARIABLES
    trc    \* TracingIntegrado: traces_activos (the spans of each active trace),
           \* the number of traces started and what finalizar_trace returned last

varsTRC == <<trc>>

VARIABLES
    rgm    \* RegistradorMetadatos: buffer_metadatos, how often memoria stored each
           \* record as an episode, the skills stored, and the last registro_id

varsRGM == <<rgm>>

VARIABLES
    buf    \* BufferTareas: _buffer (oldest entry first), _indices (task id to
           \* 0-based position) and what obtener_tarea was asked and returned

varsBUF == <<buf>>

VARIABLES
    gec    \* GestorEstadoCompartido: locks (who holds the lock of each resource,
           \* 0 when free), and where each caller of contexto_consistencia is

varsGEC == <<gec>>

VARIABLES
    cch    \* the planner's cache of similar plans: the process's hash of each
           \* goal, cache_planes, and the last query with what it returned

varsCCH == <<cch>>

VARIABLES
    gse    \* GestorSesiones: the clock, sesiones_activas (for each session the
           \* time of its last access) and what the last operation was

varsSES == <<gse>>

varsMas == <<varsEPI, varsIDX, varsMSG, varsHB, varsAP, varsPREF, varsHAB, varsHIB, varsREG, varsRTY, varsTRC, varsRGM, varsBUF, varsGEC, varsCCH, varsSES>>

varsOtros == <<varsTMO, varsMT, varsVAL, varsMas>>

varsPrevios == <<varsMET, varsORC, varsPLN, varsTMO, varsMT, varsVAL>>

SalvoEPI == <<varsPrevios, varsIDX, varsMSG, varsHB, varsAP, varsPREF, varsHAB, varsHIB, varsREG, varsRTY, varsTRC, varsRGM, varsBUF, varsGEC, varsCCH, varsSES>>

SalvoIDX == <<varsPrevios, varsEPI, varsMSG, varsHB, varsAP, varsPREF, varsHAB, varsHIB, varsREG, varsRTY, varsTRC, varsRGM, varsBUF, varsGEC, varsCCH, varsSES>>

SalvoMSG == <<varsPrevios, varsEPI, varsIDX, varsHB, varsAP, varsPREF, varsHAB, varsHIB, varsREG, varsRTY, varsTRC, varsRGM, varsBUF, varsGEC, varsCCH, varsSES>>

SalvoHB == <<varsPrevios, varsEPI, varsIDX, varsMSG, varsAP, varsPREF, varsHAB, varsHIB, varsREG, varsRTY, varsTRC, varsRGM, varsBUF, varsGEC, varsCCH, varsSES>>

SalvoAP == <<varsPrevios, varsEPI, varsIDX, varsMSG, varsHB, varsPREF, varsHAB, varsHIB, varsREG, varsRTY, varsTRC, varsRGM, varsBUF, varsGEC, varsCCH, varsSES>>

SalvoPREF == <<varsPrevios, varsEPI, varsIDX, varsMSG, varsHB, varsAP, varsHAB, varsHIB, varsREG, varsRTY, varsTRC, varsRGM, varsBUF, varsGEC, varsCCH, varsSES>>

SalvoHAB == <<varsPrevios, varsEPI, varsIDX, varsMSG, varsHB, varsAP, varsPREF, varsHIB, varsREG, varsRTY, varsTRC, varsRGM, varsBUF, varsGEC, varsCCH, varsSES>>

SalvoHIB == <<varsPrevios, varsEPI, varsIDX, varsMSG, varsHB, varsAP, varsPREF, varsHAB, varsREG, varsRTY, varsTRC, varsRGM, varsBUF, varsGEC, varsCCH, varsSES>>

SalvoREG == <<varsPrevios, varsEPI, varsIDX, varsMSG, varsHB, varsAP, varsPREF, varsHAB, varsHIB, varsRTY, varsTRC, varsRGM, varsBUF, varsGEC, varsCCH, varsSES>>

SalvoRTY == <<varsPrevios, varsEPI, varsIDX, varsMSG, varsHB, varsAP, varsPREF, varsHAB, varsHIB, varsREG, varsTRC, varsRGM, varsBUF, varsGEC, varsCCH, varsSES>>

SalvoTRC == <<varsPrevios, varsEPI, varsIDX, varsMSG, varsHB, varsAP, varsPREF, varsHAB, varsHIB, varsREG, varsRTY, varsRGM, varsBUF, varsGEC, varsCCH, varsSES>>

SalvoRGM == <<varsPrevios, varsEPI, varsIDX, varsMSG, varsHB, varsAP, varsPREF, varsHAB, varsHIB, varsREG, varsRTY, varsTRC, varsBUF, varsGEC, varsCCH, varsSES>>

SalvoBUF == <<varsPrevios, varsEPI, varsIDX, varsMSG, varsHB, varsAP, varsPREF, varsHAB, varsHIB, varsREG, varsRTY, varsTRC, varsRGM, varsGEC, varsCCH, varsSES>>

SalvoGEC == <<varsPrevios, varsEPI, varsIDX, varsMSG, varsHB, varsAP, varsPREF, varsHAB, varsHIB, varsREG, varsRTY, varsTRC, varsRGM, varsBUF, varsCCH, varsSES>>

SalvoCCH == <<varsPrevios, varsEPI, varsIDX, varsMSG, varsHB, varsAP, varsPREF, varsHAB, varsHIB, varsREG, varsRTY, varsTRC, varsRGM, varsBUF, varsGEC, varsSES>>

SalvoSES == <<varsPrevios, varsEPI, varsIDX, varsMSG, varsHB, varsAP, varsPREF, varsHAB, varsHIB, varsREG, varsRTY, varsTRC, varsRGM, varsBUF, varsGEC, varsCCH>>

vars == <<varsMET, varsORC, varsPLN, varsOtros>>

(***************************************************************************)
(* Tasks.  claves is the set of required keys present in the dict; tipo,   *)
(* query and herr_ok are read only when the keys they belong to are there. *)
(***************************************************************************)
ClavesRequeridas == {"tipo", "herramienta", "parametros"}

Tipos == {"busqueda_web", "otro"}

TareasMET ==
    [claves : SUBSET ClavesRequeridas,
     tipo : Tipos,
     query : BOOLEAN,
     herr_ok : BOOLEAN,
     max_reintentos : {Ausente} \cup (0..MaxReintentosTarea)]

\* contexto: None, or a dict whose 'reintento_actual' key may be missing
Contextos ==
    [nulo : {TRUE}, reintento_actual : {Ausente}]
    \cup [nulo : {FALSE}, reintento_actual : {Ausente} \cup (0..MaxReintentoCtx)]

(***************************************************************************)
(* Tool outcomes: a normal return, or one of the errors of the tool        *)
(* collaborators.                                                          *)
(***************************************************************************)
ErroresHerramienta == {"timeout", "conexion", "rate_limit", "auth", "no_encontrado", "desconocido"}

Desenlaces == {"ok"} \cup ErroresHerramienta

\* A tool raises error on its first fallos invocations and yields luego afterwards.
Guiones ==
    [fallos : {0}, error : {"timeout"}, luego : Desenlaces]
    \cup [fallos : 1..MaxFallos, error : ErroresHerramienta, luego : Desenlaces]

DesenlaceDe(g, n) == IF n <= g.fallos THEN g.error ELSE g.luego

\* the exception class of each error the engine can see
ClaseError(e) ==
    CASE e = "timeout" -> "TimeoutError"
      [] e = "conexion" -> "ConnectionError"
      [] e \in {"invalida", "sin_herramienta"} -> "ValueError"
      [] e = "NameError" -> "NameError"
      [] e = "AttributeError" -> "AttributeError"
      [] OTHER -> "Exception"

(***************************************************************************)
(* GestorErrores.clasificar_error.  patrones_error is a dict, searched in  *)
(* insertion order; the first pattern found in the lower-cased message     *)
(* overrides the classification by exception class.                        *)
(***************************************************************************)
PatronesError ==
    << [patron |-> "connection refused|cannot connect", tipo |-> "conexion_rechazada",
        recuperable |-> TRUE, accion_recomendada |-> "reintentar_con_backoff"],
       [patron |-> "timeout|timed out", tipo |-> "timeout",
        recuperable |-> TRUE, accion_recomendada |-> "reintentar_con_backoff"],
       [patron |-> "rate limit|too many requests", tipo |-> "rate_limiting",
        recuperable |-> TRUE, accion_recomendada |-> "reintentar_con_backoff_exponencial"],
       [patron |-> "authentication|unauthorized|invalid token", tipo |-> "autenticacion",
        recuperable |-> FALSE, accion_recomendada |-> "escalar_a_mcp"],
       [patron |-> "not found|404|invalid endpoint", tipo |-> "recurso_no_encontrado",
        recuperable |-> FALSE, accion_recomendada |-> "escalar_a_mcp"] >>

\* re.search(patron, str(error).lower()) for the message each error carries:
\* "Timeout después de 30 segundos", "connection refused", "rate limit exceeded",
\* "unauthorized", "404 not found"; the other messages contain no pattern.
MensajeCoincide(e, i) ==
    \/ e = "conexion" /\ i = 1
    \/ e = "timeout" /\ i = 2
    \/ e = "rate_limit" /\ i = 3
    \/ e = "auth" /\ i = 4
    \/ e = "no_encontrado" /\ i = 5

ClasificarError(e) ==
    LET porDefecto == [tipo |-> "desconocido", recuperable |-> FALSE,
                       accion_recomendada |-> "escalar_a_mcp"]
        porClase ==
            IF ClaseError(e) \in {"TimeoutError", "asyncio.TimeoutError"}
              THEN [tipo |-> "timeout", recuperable |-> TRUE,
                    accion_recomendada |-> "reintentar_con_backoff"]
            ELSE IF ClaseError(e) \in {"ConnectionError", "NetworkError"}
              THEN [tipo |-> "conexion", recuperable |-> TRUE,
                    accion_recomendada |-> "reintentar_inmediato"]
            ELSE porDefecto
        coinciden == {i \in 1..Len(PatronesError) : MensajeCoincide(e, i)}
    IN  IF coinciden = {} THEN porClase
        ELSE LET i == CHOOSE j \in coinciden : \A k \in coinciden : j <= k
             IN [tipo |-> PatronesError[i].tipo,
                 recuperable |-> PatronesError[i].recuperable,
                 accion_recomendada |-> PatronesError[i].accion_recomendada]

EsRecuperable(e) == ClasificarError(e).recuperable

NoError == "ninguno"
NoRes == [exito |-> "ausente", reintentos |-> Ausente, tipo_error |-> "ninguno"]
NoSalida == [tipo |-> "ninguna", res |-> NoRes, error |-> NoError]
NoTarea == [claves |-> {}, tipo |-> "otro", query |-> FALSE, herr_ok |-> FALSE,
            max_reintentos |-> Ausente]
NoCtx == [nulo |-> TRUE, reintento_actual |-> Ausente]
NoGuion == [fallos |-> 0, error |-> "timeout", luego |-> "ok"]

InitMET ==
    /\ met_pc = "inactivo"
    /\ met_tarea = NoTarea
    /\ met_ctx = NoCtx
    /\ met_error = NoError
    /\ met_prof = 0
    /\ met_res = NoRes
    /\ met_salida = NoSalida
    /\ met_guion = NoGuion
    /\ met_hist = <<>>
    /\ met_validaciones = 0
    /\ met_sleeps = 0
    /\ met_estado = "ninguno"
    /\ met_metricas = [tareas_completadas |-> 0, tareas_fallidas |-> 0]

(***************************************************************************)
(* ModuloEjecucionTareas._validar_tarea: "valida" or the ValueError.       *)
(***************************************************************************)
ValidarTarea(t) ==
    IF ~(ClavesRequeridas \subseteq t.claves) THEN "invalida"
    ELSE IF t.tipo = "busqueda_web" /\ ~t.query THEN "invalida"
    ELSE "valida"

\* _seleccionar_herramienta: the registry returns the tool or nothing
SeleccionarHerramienta(t) ==
    IF t.herr_ok THEN "herramienta" ELSE "sin_herramienta"

\* tarea.get('max_reintentos', self.config.get('max_reintentos', 3))
MaxReintentosDe(t) ==
    IF t.max_reintentos = Ausente THEN MaxReintentosDefault ELSE t.max_reintentos

\* contexto.get('reintento_actual', 0)
ReintentoActual(c) ==
    IF c.reintento_actual = Ausente THEN 0 ELSE c.reintento_actual

\* the module's import block: the name random is not bound in met.py
RandomImportado == FALSE


(***************************************************************************)
(* _procesar_resultado.  The generic branch wraps the value in             *)
(* {'resultado': ...}: the record has no 'exito' key.  The search branch   *)
(* delegates to _procesar_resultado_busqueda, which builds the TaskResult  *)
(* of a successful task.                                                   *)
(***************************************************************************)
ProcesarResultadoBusqueda ==
    [exito |-> "si", reintentos |-> Ausente, tipo_error |-> "ninguno"]

ProcesarResultado(t) ==
    IF t.tipo = "busqueda_web" THEN ProcesarResultadoBusqueda
    ELSE [exito |-> "ausente", reintentos |-> Ausente, tipo_error |-> "ninguno"]

\* the dict _manejar_error returns once the retries are used up
ResultadoError(e, r) ==
    [exito |-> "no", reintentos |-> r, tipo_error |-> ClaseError(e)]

(***************************************************************************)
(* A call of ejecutar_tarea(tarea, contexto) by some caller.               *)
(***************************************************************************)
IniciarLlamada(t, c, g) ==
    /\ met_pc' = "validar"
    /\ met_tarea' = t
    /\ met_ctx' = c
    /\ met_error' = NoError
    /\ met_prof' = 0
    /\ met_res' = NoRes
    /\ met_salida' = NoSalida
    /\ met_guion' = g
    /\ met_hist' = <<>>
    /\ met_validaciones' = 0
    /\ met_sleeps' = 0
    /\ met_estado' = "ninguno"
    /\ UNCHANGED met_metricas

MetLlamar ==
    /\ UNCHANGED <<varsORC, varsPLN, varsOtros>>
    /\ met_pc = "inactivo"
    /\ \E t \in TareasMET, c \in Contextos, g \in Guiones : IniciarLlamada(t, c, g)

(***************************************************************************)
(* ejecutar_tarea up to the first await: _registrar_inicio_tarea,          *)
(* _validar_tarea, _seleccionar_herramienta.                               *)
(***************************************************************************)
MetValidar ==
    /\ UNCHANGED <<varsORC, varsPLN, varsOtros>>
    /\ met_pc = "validar"
    /\ met_estado' = "en_ejecucion"
    /\ met_validaciones' = met_validaciones + 1
    /\ IF ValidarTarea(met_tarea) # "valida"
         THEN /\ met_error' = ValidarTarea(met_tarea)
              /\ met_pc' = "manejar"
         ELSE IF SeleccionarHerramienta(met_tarea) = "sin_herramienta"
                THEN /\ met_error' = "sin_herramienta"
                     /\ met_pc' = "manejar"
                ELSE /\ met_error' = NoError
                     /\ met_pc' = "ejecutar"
    /\ UNCHANGED <<met_tarea, met_ctx, met_prof, met_res, met_salida, met_guion, met_hist,
                   met_sleeps, met_metricas>>

(***************************************************************************)
(* _ejecutar_con_timeout and, when the tool returned, _procesar_resultado  *)
(* and _registrar_exito_tarea.  The tool's outcome is the one its script   *)
(* gives for this invocation.                                              *)
(***************************************************************************)
MetInvocar ==
    /\ UNCHANGED <<varsORC, varsPLN, varsOtros>>
    /\ met_pc = "ejecutar"
    /\ LET d == DesenlaceDe(met_guion, Len(met_hist) + 1) IN
         /\ met_hist' = Append(met_hist, d)
         /\ IF d = "ok"
              THEN /\ met_res' = ProcesarResultado(met_tarea)
                   /\ met_estado' = "completada"
                   /\ met_metricas' = [met_metricas EXCEPT !.tareas_completadas = @ + 1]
                   /\ met_error' = NoError
                   /\ met_pc' = "retorno"
              ELSE /\ met_error' = d
                   /\ met_pc' = "manejar"
                   /\ UNCHANGED <<met_res, met_estado, met_metricas>>
    /\ UNCHANGED <<met_tarea, met_ctx, met_prof, met_salida, met_guion,
                   met_validaciones, met_sleeps>>

(***************************************************************************)
(* The except block of ejecutar_tarea: _manejar_error.  contexto.get on    *)
(* None raises AttributeError; random.uniform raises NameError because     *)
(* random is not imported.  An exception raised here is inside the except  *)
(* block of every frame, so it leaves the outermost call.                  *)
(***************************************************************************)
DebeReintentar(t, c) == ReintentoActual(c) < MaxReintentosDe(t)

Propagar(e) ==
    /\ met_pc' = "fin"
    /\ met_salida' = [tipo |-> "excepcion", res |-> NoRes, error |-> e]
    /\ UNCHANGED <<met_ctx, met_prof, met_res, met_sleeps, met_estado, met_metricas>>

MetManejarError ==
    /\ UNCHANGED <<varsORC, varsPLN, varsOtros>>
    /\ met_pc = "manejar"
    /\ IF met_ctx.nulo
         THEN Propagar("AttributeError")
         ELSE IF DebeReintentar(met_tarea, met_ctx)
                THEN IF ~RandomImportado
                       THEN Propagar("NameError")
                       ELSE /\ met_sleeps' = met_sleeps + 1
                            /\ met_ctx' = [met_ctx EXCEPT !.reintento_actual = ReintentoActual(met_ctx) + 1]
                            /\ met_prof' = met_prof + 1
                            /\ met_pc' = "validar"
                            /\ UNCHANGED <<met_res, met_salida, met_estado, met_metricas>>
                ELSE /\ met_res' = ResultadoError(met_error, ReintentoActual(met_ctx))
                     /\ met_estado' = "fallida"
                     /\ met_metricas' = [met_metricas EXCEPT !.tareas_fallidas = @ + 1]
                     /\ met_pc' = "retorno"
                     /\ UNCHANGED <<met_ctx, met_prof, met_salida, met_sleeps>>
    /\ UNCHANGED <<met_tarea, met_error, met_guion, met_hist, met_validaciones>>

(***************************************************************************)
(* A frame returns.  A frame suspended in _manejar_error receives the      *)
(* record, passes it to _registrar_fallo_tarea and returns it in turn.     *)
(***************************************************************************)
MetRetornar ==
    /\ UNCHANGED <<varsORC, varsPLN, varsOtros>>
    /\ met_pc = "retorno"
    /\ IF met_prof > 0
         THEN /\ met_prof' = met_prof - 1
              /\ met_estado' = "fallida"
              /\ met_metricas' = [met_metricas EXCEPT !.tareas_fallidas = @ + 1]
              /\ UNCHANGED <<met_pc, met_salida>>
         ELSE /\ met_pc' = "fin"
              /\ met_salida' = [tipo |-> "resultado", res |-> met_res, error |-> NoError]
              /\ UNCHANGED <<met_prof, met_estado, met_metricas>>
    /\ UNCHANGED <<met_tarea, met_ctx, met_error, met_res, met_guion, met_hist,
                   met_validaciones, met_sleeps>>





(***************************************************************************)
(* Plans.  A plan is the sequence plan['tareas']; a task of a plan has an  *)
(* id, the ids it depends on and a tool name.  The candidates are what     *)
(* the language model may answer: ids are the positions in the answer.     *)
(***************************************************************************)
HerramientasDisponibles == {"busqueda_web", "generacion_texto", "api_rest"}

HerramientasCandidatas == {"busqueda_web"}

DepsPosibles(n) == {S \in SUBSET (1..n) : Cardinality(S) <= MaxDeps}

PlanesDeLongitud(n) ==
    { [i \in 1..n |-> [id |-> i, dependencias |-> f[i].d, herramienta |-> f[i].h]] :
        f \in [1..n -> [d : DepsPosibles(n), h : HerramientasCandidatas]] }

PlanesCandidatos == UNION { PlanesDeLongitud(n) : n \in 0..MaxTareas }

\* a variant whose comparison also lets the empty plan pass
ValidarMinimoTareasLaxo(plan) == Len(plan) >= 0

\* _validar_minimo_tareas
ValidarMinimoTareas(plan) == Len(plan) > 0

(***************************************************************************)
(* _validar_dependencias_ciclicas: a directed graph with an edge from each *)
(* dependency to the task; the rule fails when nx.simple_cycles finds a    *)
(* cycle, that is when some node reaches itself along one or more edges.   *)
(***************************************************************************)
GrafoDependencias(plan) ==
    UNION { { <<d, plan[i].id>> : d \in plan[i].dependencias } : i \in DOMAIN plan }

Sucesores(E, S) == { e[2] : e \in { x \in E : x[1] \in S } }

RECURSIVE Alcanzables(_, _, _)
Alcanzables(E, S, n) ==
    IF n = 0 \/ Sucesores(E, S) \subseteq S THEN S
    ELSE Alcanzables(E, S \cup Sucesores(E, S), n - 1)

SimpleCycles(E) ==
    { n \in { e[1] : e \in E } : n \in Alcanzables(E, Sucesores(E, {n}), Cardinality(E)) }

\* a variant that only looks for a task depending on itself
ValidarSoloAutodependencias(plan) ==
    \A i \in DOMAIN plan : plan[i].id \notin plan[i].dependencias

ValidarDependenciasCiclicas(plan) == SimpleCycles(GrafoDependencias(plan)) = {}

\* _validar_recursos_disponibles
ValidarRecursosDisponibles(plan) ==
    { plan[i].herramienta : i \in DOMAIN plan } \ HerramientasDisponibles = {}

\* validar_plan: the names of the rules that failed
ValidarPlan(plan) ==
    (IF ValidarMinimoTareas(plan) THEN {} ELSE {"tareas_minimo"})
    \cup (IF ValidarDependenciasCiclicas(plan) THEN {} ELSE {"dependencias_ciclicas"})
    \cup (IF ValidarRecursosDisponibles(plan) THEN {} ELSE {"recursos_disponibles"})

(***************************************************************************)
(* _optimizar_secuencia: sorted() by the number of dependencies; the sort  *)
(* is stable.  _optimizar_recursos and _optimizar_parametros return the    *)
(* plan as it is.                                                          *)
(***************************************************************************)
RECURSIVE OrdenarPorDependencias(_, _)
OrdenarPorDependencias(tareas, k) ==
    LET ConK(t) == Cardinality(t.dependencias) = k
        Resto(t) == Cardinality(t.dependencias) > k
    IN  IF tareas = <<>> THEN <<>>
        ELSE SelectSeq(tareas, ConK) \o OrdenarPorDependencias(SelectSeq(tareas, Resto), k + 1)

\* a variant that keeps only the tasks without dependencies
OptimizarSoloIndependientes(plan) ==
    LET SinDeps(t) == t.dependencias = {} IN SelectSeq(plan, SinDeps)

OptimizarSecuencia(plan) == OrdenarPorDependencias(plan, 0)

OptimizarPlan(plan) == OptimizarSecuencia(plan)


(***************************************************************************)
(* _ejecutar_con_timeout, one call in time.  A coroutine tool is awaited   *)
(* through asyncio.wait_for(..., timeout): the wait ends when the tool     *)
(* returns or when the deadline is reached, whichever comes first.  Any    *)
(* other tool is handed to the thread pool with loop.run_in_executor and   *)
(* awaited with no deadline.                                               *)
(***************************************************************************)
MaxDuracion == 5
MaxTimeout == 4

InitTMO ==
    /\ tmo_pc = "inactivo"
    /\ tmo_asincrona = FALSE
    /\ tmo_duracion = 0
    /\ tmo_timeout = 1
    /\ tmo_espera = 0
    /\ tmo_desenlace = "ninguno"

\* the engine awaits wait_for only until the deadline, run_in_executor until the end
SigueEsperando(asincrona, espera, timeout) == asincrona => espera < timeout

TmoLlamar ==
    /\ tmo_pc = "inactivo"
    /\ \E a \in BOOLEAN, d \in 0..MaxDuracion, t \in 1..MaxTimeout :
         /\ tmo_asincrona' = a
         /\ tmo_duracion' = d
         /\ tmo_timeout' = t
    /\ tmo_espera' = 0
    /\ tmo_pc' = "esperando"
    /\ UNCHANGED tmo_desenlace
    /\ UNCHANGED <<varsMET, varsORC, varsPLN, varsMT, varsVAL, varsMas>>

\* one unit of time passes while the tool runs and the engine waits for it
TmoEsperar ==
    /\ tmo_pc = "esperando"
    /\ tmo_espera < tmo_duracion
    /\ SigueEsperando(tmo_asincrona, tmo_espera, tmo_timeout)
    /\ tmo_espera' = tmo_espera + 1
    /\ UNCHANGED <<tmo_pc, tmo_asincrona, tmo_duracion, tmo_timeout, tmo_desenlace>>
    /\ UNCHANGED <<varsMET, varsORC, varsPLN, varsMT, varsVAL, varsMas>>

\* the tool returns: return resultado
TmoRetornar ==
    /\ tmo_pc = "esperando"
    /\ tmo_espera = tmo_duracion
    /\ tmo_desenlace' = "ok"
    /\ tmo_pc' = "fin"
    /\ UNCHANGED <<tmo_asincrona, tmo_duracion, tmo_timeout, tmo_espera>>
    /\ UNCHANGED <<varsMET, varsORC, varsPLN, varsMT, varsVAL, varsMas>>

\* wait_for reaches the deadline: asyncio.TimeoutError, re-raised as TimeoutError
TmoVencer ==
    /\ tmo_pc = "esperando"
    /\ tmo_asincrona
    /\ tmo_espera = tmo_timeout
    /\ tmo_desenlace' = "timeout"
    /\ tmo_pc' = "fin"
    /\ UNCHANGED <<tmo_asincrona, tmo_duracion, tmo_timeout, tmo_espera>>
    /\ UNCHANGED <<varsMET, varsORC, varsPLN, varsMT, varsVAL, varsMas>>

(***************************************************************************)
(* MemoriaTrabajo (src/src/memoria/trabajo.py).  Every method runs under   *)
(* the store's lock, so each is one action.  The cleaner thread and the    *)
(* per-key timers run at times of their own.                               *)
(***************************************************************************)
MaxReloj == 4
TimeoutMT == 2
MaxExpiracion == 1

Claves == {"k1", "k2"}

SinLectura == [clave |-> "ninguna", hallado |-> FALSE, edad |-> 0]

InitMT ==
    /\ mt_reloj = 0
    /\ mt_almacen = {}
    /\ mt_ts_acceso = [k \in Claves |-> Ausente]
    /\ mt_ts_creacion = [k \in Claves |-> Ausente]
    /\ mt_timers = {}
    /\ mt_lectura = SinLectura

\* guardar(clave, valor, expiration)
MtGuardar ==
    /\ \E k \in Claves, exp \in {Ausente} \cup (1..MaxExpiracion) :
         /\ mt_almacen' = mt_almacen \cup {k}
         /\ mt_ts_acceso' = [mt_ts_acceso EXCEPT ![k] = mt_reloj]
         /\ mt_ts_creacion' = [mt_ts_creacion EXCEPT ![k] = mt_reloj]
         /\ mt_timers' = IF exp = Ausente THEN mt_timers
                         ELSE mt_timers \cup {<<k, mt_reloj + exp, mt_reloj>>}
    /\ UNCHANGED <<mt_reloj, mt_lectura>>
    /\ UNCHANGED <<varsMET, varsORC, varsPLN, varsTMO, varsVAL, varsMas>>

\* the del statements of eliminar and _limpiar_expirados
Borrar(S) ==
    /\ mt_almacen' = mt_almacen \ S
    /\ mt_ts_acceso' = [k \in Claves |-> IF k \in S THEN Ausente ELSE mt_ts_acceso[k]]
    /\ mt_ts_creacion' = [k \in Claves |-> IF k \in S THEN Ausente ELSE mt_ts_creacion[k]]

\* obtener(clave): whether the stored value is returned, and the new access time
ObtenerHalla(k) == k \in mt_almacen

MtObtener ==
    /\ \E k \in Claves :
         /\ mt_lectura' = [clave |-> k, hallado |-> ObtenerHalla(k),
                           edad |-> IF k \in mt_almacen THEN mt_reloj - mt_ts_creacion[k] ELSE 0]
         /\ mt_ts_acceso' = IF ObtenerHalla(k) THEN [mt_ts_acceso EXCEPT ![k] = mt_reloj]
                            ELSE mt_ts_acceso
    /\ UNCHANGED <<mt_reloj, mt_almacen, mt_ts_creacion, mt_timers>>
    /\ UNCHANGED <<varsMET, varsORC, varsPLN, varsTMO, varsVAL, varsMas>>

\* eliminar(clave), called by a client
MtEliminar ==
    /\ \E k \in mt_almacen : Borrar({k})
    /\ UNCHANGED <<mt_reloj, mt_timers, mt_lectura>>
    /\ UNCHANGED <<varsMET, varsORC, varsPLN, varsTMO, varsVAL, varsMas>>

\* threading.Timer(expiration, lambda: self.eliminar(clave)) fires
MtTimerDispara ==
    /\ \E t \in mt_timers :
         /\ mt_reloj >= t[2]
         /\ mt_timers' = mt_timers \ {t}
         /\ IF t[1] \in mt_almacen THEN Borrar({t[1]})
            ELSE UNCHANGED <<mt_almacen, mt_ts_acceso, mt_ts_creacion>>
    /\ UNCHANGED <<mt_reloj, mt_lectura>>
    /\ UNCHANGED <<varsMET, varsORC, varsPLN, varsTMO, varsVAL, varsMas>>

\* _limpiar_expirados: the keys whose last access is older than timeout
Expirados == {k \in mt_almacen : mt_reloj - mt_ts_acceso[k] > TimeoutMT}

\* the cleaner thread wakes up
MtLimpiarExpirados ==
    /\ Borrar(Expirados)
    /\ Expirados # {}
    /\ UNCHANGED <<mt_reloj, mt_timers, mt_lectura>>
    /\ UNCHANGED <<varsMET, varsORC, varsPLN, varsTMO, varsVAL, varsMas>>

\* time passes
MtTic ==
    /\ mt_reloj < MaxReloj
    /\ mt_reloj' = mt_reloj + 1
    /\ UNCHANGED <<mt_almacen, mt_ts_acceso, mt_ts_creacion, mt_timers, mt_lectura>>
    /\ UNCHANGED <<varsMET, varsORC, varsPLN, varsTMO, varsVAL, varsMas>>

(***************************************************************************)
(* ValidadorOptimizadorPlanes on its own: a plan is validated, optimised   *)
(* and validated again.  The plans submitted here may name a dependency    *)
(* that is no task of the plan, and tools of any name.                     *)
(***************************************************************************)
MaxTareasVAL == 2

HerramientasVAL == {"busqueda_web", "auto", "desconocida"}

DepsVAL(n) == {S \in SUBSET (1..(n + 1)) : Cardinality(S) <= MaxDeps}

\* the tasks a submitted plan of n tasks may hold
TareasVAL(n) == [d : DepsVAL(n), h : HerramientasVAL]

\* the plan dict whose 'tareas' list is given task by task
PlanDe(n, f) == [i \in 1..n |-> [id |-> i, dependencias |-> f[i].d, herramienta |-> f[i].h]]

\* validar_plan: the rules that failed, with what their messages report
ValidarPlanDetalle(plan) ==
    [errores |-> ValidarPlan(plan),
     ciclos |-> SimpleCycles(GrafoDependencias(plan)),
     no_disponibles |-> { plan[i].herramienta : i \in DOMAIN plan } \ HerramientasDisponibles]

SinVeredicto == [errores |-> {}, ciclos |-> {}, no_disponibles |-> {}]

InitVAL ==
    /\ val_pc = "inactivo"
    /\ val_plan = <<>>
    /\ val_res = SinVeredicto
    /\ val_opt = <<>>
    /\ val_res2 = SinVeredicto

\* validar_plan(plan) for a submitted plan
ValValidar ==
    /\ val_pc = "inactivo"
    /\ \E n \in 0..MaxTareasVAL :
         \E f \in [1..n -> TareasVAL(n)] :
           /\ val_plan' = PlanDe(n, f)
           /\ val_res' = ValidarPlanDetalle(PlanDe(n, f))
    /\ val_pc' = "validado"
    /\ UNCHANGED <<val_opt, val_res2>>
    /\ UNCHANGED <<varsMET, varsORC, varsPLN, varsTMO, varsMT, varsMas>>

\* optimizar_plan(plan)
ValOptimizar ==
    /\ val_pc = "validado"
    /\ val_opt' = OptimizarPlan(val_plan)
    /\ val_pc' = "optimizado"
    /\ UNCHANGED <<val_plan, val_res, val_res2>>
    /\ UNCHANGED <<varsMET, varsORC, varsPLN, varsTMO, varsMT, varsMas>>

\* validar_plan(plan) for the optimised plan
ValRevalidar ==
    /\ val_pc = "optimizado"
    /\ val_res2' = ValidarPlanDetalle(val_opt)
    /\ val_pc' = "revalidado"
    /\ UNCHANGED <<val_plan, val_res, val_opt>>
    /\ UNCHANGED <<varsMET, varsORC, varsPLN, varsTMO, varsMT, varsMas>>

(***************************************************************************)
(* The Episodic Log (src/src/memoria/episodica).  A dict is a function     *)
(* from the keys it holds to their values; every value is written as the   *)
(* text Python formats it to.                                              *)
(***************************************************************************)
MaxEpisodiosLog == 2
MaxGenerados == 2

Objetivos == {"analizar ventas", "buscar clima"}

Versiones == {"", "1.0.0"}

IdsProvistos == {"episodio_a"}

DictVacio == [c \in {} |-> ""]

\* dict.get(clave, defecto)
Get(d, clave, defecto) == IF clave \in DOMAIN d THEN d[clave] ELSE defecto

\* hashlib.sha256(contenido.encode()).hexdigest(): one digest per content
Sha256(contenido) == "sha256(" \o contenido \o ")"

\* the fields of the Episodio schema
CamposEsquema ==
    {"id", "objetivo", "session_id", "plan_ejecutado", "timestamp_planificacion",
     "resultados_tareas", "estado_global", "duracion_total_segundos",
     "contexto_ejecucion", "metricas_rendimiento", "recursos_utilizados",
     "timestamp_inicio", "timestamp_fin", "version_sistema", "checksum_integridad",
     "feedback_usuario", "evaluacion_automatica"}

\* the keys of the dict _fase_recoleccion builds
CamposNucleo ==
    {"objetivo", "plan_ejecutado", "resultados_tareas", "contexto_ejecucion",
     "metricas", "session_id", "timestamp"}

\* the value a caller gives to a field other than the ones the model varies
ValorProvisto(campo) == "<" \o campo \o ">"

\* Episodio.calcular_checksum: the validator of checksum_integridad replaces
\* whatever was passed by the digest of objetivo, timestamp_inicio, timestamp_fin
ChecksumEsquema(objetivo, inicio, fin) == Sha256(objetivo \o inicio \o fin)

\* Episodio(...).dict(): every schema field, the checksum as the validator made it
EpisodioEsquema(id, objetivo, version) ==
    [c \in CamposEsquema |->
        CASE c = "id" -> id
          [] c = "objetivo" -> objetivo
          [] c = "version_sistema" -> version
          [] c = "checksum_integridad" ->
                ChecksumEsquema(objetivo, ValorProvisto("timestamp_inicio"),
                                ValorProvisto("timestamp_fin"))
          [] OTHER -> ValorProvisto(c)]

\* the episode dict of NucleoSAAM._fase_recoleccion
EpisodioNucleo(objetivo) ==
    [c \in CamposNucleo |-> IF c = "objetivo" THEN objetivo ELSE ValorProvisto(c)]

\* ValidadorIntegridad._calcular_checksum
CalcularChecksum(episodio) ==
    Sha256(Get(episodio, "objetivo", "") \o Get(episodio, "timestamp_inicio", "")
           \o Get(episodio, "timestamp_fin", "") \o Get(episodio, "version_sistema", ""))

\* ValidadorIntegridad._validar_checksum
ValidarChecksum(episodio) ==
    CalcularChecksum(episodio) = Get(episodio, "checksum_integridad", "")

\* any other caller's dict: every key _db_a_dict gives back, except some
\* that are left out, and maybe a key that is no column; the checksum is
\* made the way the integrity validator makes it
CamposOmitibles == {"id", "estado_global"}

CamposAjenos == {"metricas"}

CamposCompletos == (CamposEsquema \ {"timestamp_planificacion"})

EpisodioLibre(omitidos, ajenos, id) ==
    LET base == [c \in (CamposCompletos \ omitidos) \cup ajenos |->
                    IF c = "id" THEN id ELSE ValorProvisto(c)]
    IN [c \in DOMAIN base |->
            IF c = "checksum_integridad" THEN CalcularChecksum(base) ELSE base[c]]

\* the columns of EpisodioDB that guardar_episodio fills
Columnas ==
    {"id", "objetivo", "session_id", "plan_ejecutado", "resultados_tareas",
     "estado_global", "duracion_total", "contexto_ejecucion", "metricas_rendimiento",
     "recursos_utilizados", "timestamp_inicio", "timestamp_fin", "version_sistema",
     "checksum_integridad", "feedback_usuario", "evaluacion_automatica"}

\* the columns declared nullable=False
ColumnasNoNulas ==
    {"objetivo", "session_id", "plan_ejecutado", "resultados_tareas", "estado_global",
     "duracion_total", "timestamp_inicio", "timestamp_fin", "version_sistema",
     "checksum_integridad"}

None == "None"

\* the key of the dict a column is read from
ClaveDe(columna) == IF columna = "duracion_total" THEN "duracion_total_segundos" ELSE columna

\* the second argument of episodio.get for each column
DefectoDe(columna) ==
    CASE columna \in {"objetivo", "session_id", "version_sistema", "checksum_integridad"} -> ""
      [] columna \in {"plan_ejecutado", "contexto_ejecucion", "metricas_rendimiento",
                      "recursos_utilizados", "evaluacion_automatica"} -> "{}"
      [] columna = "resultados_tareas" -> "[]"
      [] columna = "estado_global" -> "desconocido"
      [] columna = "duracion_total" -> "0"
      [] OTHER -> None

\* EpisodioDB(...) as guardar_episodio builds it
FilaDe(episodio) ==
    [col \in Columnas |-> Get(episodio, ClaveDe(col), DefectoDe(col))]

\* _generar_id_episodio: a new id at every call
GenerarIdEpisodio(n) == "episodio_gen" \o ToString(n)

\* session.commit() raises on a primary key already in the table and on None
\* in a column that is not nullable
CommitFalla(fila) ==
    \/ fila["id"] \in DOMAIN epi_tabla
    \/ \E col \in ColumnasNoNulas : fila[col] = None

\* _db_a_dict
DbADict(fila) ==
    [c \in {ClaveDe(col) : col \in Columnas} \cup {"timestamp_creacion"} |->
        CASE c = "timestamp_creacion" -> ValorProvisto("utcnow")
          [] c = "duracion_total_segundos" -> fila["duracion_total"]
          [] OTHER -> fila[c]]

SinLeer == [id |-> "ninguno", hallado |-> FALSE, episodio |-> DictVacio]

InitEPI ==
    /\ epi_tabla = DictVacio
    /\ epi_entrada = DictVacio
    /\ epi_origen = "ninguno"
    /\ epi_ret = "ninguno"
    /\ epi_generados = 0
    /\ epi_leido = SinLeer

\* guardar_episodio(episodio): the id is added to the caller's dict when it
\* has none, the row is built and committed; a failed commit is rolled back
\* and the exception raised again
Guardar(origen, episodio) ==
    LET sinId == "id" \notin DOMAIN episodio
        conId == IF sinId
                   THEN [c \in DOMAIN episodio \cup {"id"} |->
                            IF c = "id" THEN GenerarIdEpisodio(epi_generados + 1)
                            ELSE episodio[c]]
                   ELSE episodio
        fila == FilaDe(conId)
    IN /\ sinId => epi_generados < MaxGenerados
       /\ epi_entrada' = conId
       /\ epi_origen' = origen
       /\ epi_generados' = IF sinId THEN epi_generados + 1 ELSE epi_generados
       /\ IF CommitFalla(fila)
            THEN /\ epi_ret' = "error"
                 /\ UNCHANGED epi_tabla
            ELSE /\ epi_ret' = conId["id"]
                 /\ epi_tabla' = [i \in DOMAIN epi_tabla \cup {fila["id"]} |->
                                    IF i = fila["id"] THEN fila ELSE epi_tabla[i]]
       /\ epi_leido' = SinLeer

\* an Episodio built by the schema is appended
EpiGuardarEsquema ==
    /\ Cardinality(DOMAIN epi_tabla) < MaxEpisodiosLog
    /\ \E id \in IdsProvistos, o \in Objetivos, v \in Versiones :
         Guardar("esquema", EpisodioEsquema(id, o, v))
    /\ UNCHANGED SalvoEPI

\* the dict of _fase_recoleccion is appended
EpiGuardarNucleo ==
    /\ Cardinality(DOMAIN epi_tabla) < MaxEpisodiosLog
    /\ \E o \in Objetivos : Guardar("nucleo", EpisodioNucleo(o))
    /\ UNCHANGED SalvoEPI

\* some other dict is appended
EpiGuardarLibre ==
    /\ Cardinality(DOMAIN epi_tabla) < MaxEpisodiosLog
    /\ \E omitidos \in SUBSET CamposOmitibles, ajenos \in SUBSET CamposAjenos, id \in IdsProvistos :
         Guardar("libre", EpisodioLibre(omitidos, ajenos, id))
    /\ UNCHANGED SalvoEPI

\* obtener_episodio(episodio_id)
EpiObtener ==
    /\ \E id \in DOMAIN epi_tabla \cup IdsProvistos :
         epi_leido' = IF id \in DOMAIN epi_tabla
                        THEN [id |-> id, hallado |-> TRUE, episodio |-> DbADict(epi_tabla[id])]
                        ELSE [id |-> id, hallado |-> FALSE, episodio |-> DictVacio]
    /\ UNCHANGED <<epi_tabla, epi_entrada, epi_origen, epi_ret, epi_generados>>
    /\ UNCHANGED SalvoEPI

(***************************************************************************)
(* IndexadorEpisodios (src/src/memoria/episodica/indexador.py).  A text is *)
(* the sequence of its lower-case words; a score is written in tenths.     *)
(***************************************************************************)
MaxIndexados == 2

Stopwords == {"con", "para", "por", "de", "la", "el", "en", "y", "a", "los", "las"}

\* words the pattern [a-z...]{3,} does not match
PalabrasCortas == {"ia"}

\* _extraer_tokens
ExtraerTokens(texto) ==
    LET Significativa(p) == p \notin PalabrasCortas /\ p \notin Stopwords
    IN SelectSeq(texto, Significativa)

\* _categorizar_rendimiento
CategorizarRendimiento(rendimiento) ==
    IF rendimiento >= 8 THEN "excelente"
    ELSE IF rendimiento >= 6 THEN "bueno"
    ELSE IF rendimiento >= 4 THEN "regular"
    ELSE "deficiente"

\* _obtener_bandas_relevantes: the bands of the scores from the minimum up
ObtenerBandasRelevantes(minimo) == { CategorizarRendimiento(r) : r \in minimo..10 }

\* metricas_rendimiento.get('puntuacion_global', 0.5)
PuntuacionGlobal(episodio) == IF episodio.puntuacion = Ausente THEN 5 ELSE episodio.puntuacion

ObjetivosIDX == { <<"analizar", "ventas">>, <<"analizar", "para", "clima">> }

TextosBuscados == { <<"analizar", "ventas">>, <<"ia", "clima">> }

EstadosIDX == {"exito", "fallo"}

SesionesIDX == {"s1", ""}

FechaIDX == "2024-01-01"

SinCriterio == "sin criterio"

Criterios ==
    [estado : EstadosIDX \cup {SinCriterio},
     objetivo_contiene : TextosBuscados \cup {<<SinCriterio>>},
     session_id : {"s1", SinCriterio},
     fecha : {FechaIDX, SinCriterio},
     rendimiento_minimo : {6, Ausente}]

\* the criteria dict has no key at all
SinCriterios(c) ==
    /\ c.estado = SinCriterio
    /\ c.objetivo_contiene = <<SinCriterio>>
    /\ c.session_id = SinCriterio
    /\ c.fecha = SinCriterio
    /\ c.rendimiento_minimo = Ausente

\* indices[nombre][clave].append(id), the list being created when missing
Anexar(indice, clave, id) ==
    [k \in DOMAIN indice \cup {clave} |->
        IF k = clave
          THEN Append(IF clave \in DOMAIN indice THEN indice[clave] ELSE <<>>, id)
          ELSE indice[k]]

\* for token in tokens: indices['por_objetivo'][token].append(id)
RECURSIVE AnexarTokens(_, _, _)
AnexarTokens(indice, tokens, id) ==
    IF tokens = <<>> THEN indice
    ELSE AnexarTokens(Anexar(indice, Head(tokens), id), Tail(tokens), id)

\* indices[nombre].get(clave, []) as a set
Lista(indice, clave) ==
    IF clave \in DOMAIN indice THEN { indice[clave][i] : i \in DOMAIN indice[clave] } ELSE {}

IndicesVacios ==
    [por_estado |-> DictVacio, por_objetivo |-> DictVacio, por_session |-> DictVacio,
     por_fecha |-> DictVacio, por_rendimiento |-> DictVacio]

SinBusqueda == [hecha |-> FALSE, criterios |-> <<>>, ids |-> {}]

InitIDX ==
    /\ idx_indices = IndicesVacios
    /\ idx_episodios = <<>>
    /\ idx_busqueda = SinBusqueda

\* indexar_episodio(episodio) for an episode read from the log
IdxIndexar ==
    /\ Len(idx_episodios) < MaxIndexados
    /\ \E est \in EstadosIDX, obj \in ObjetivosIDX, ses \in SesionesIDX, p \in {Ausente, 9} :
         LET e == [id |-> Len(idx_episodios) + 1, estado_global |-> est, objetivo |-> obj,
                   session_id |-> ses, fecha |-> FechaIDX, puntuacion |-> p]
         IN /\ idx_episodios' = Append(idx_episodios, e)
            /\ idx_indices' =
                 [por_estado |-> Anexar(idx_indices.por_estado, e.estado_global, e.id),
                  por_objetivo |-> AnexarTokens(idx_indices.por_objetivo,
                                                ExtraerTokens(e.objetivo), e.id),
                  por_session |-> IF e.session_id # ""
                                    THEN Anexar(idx_indices.por_session, e.session_id, e.id)
                                    ELSE idx_indices.por_session,
                  por_fecha |-> Anexar(idx_indices.por_fecha, e.fecha, e.id),
                  por_rendimiento |-> Anexar(idx_indices.por_rendimiento,
                                             CategorizarRendimiento(PuntuacionGlobal(e)), e.id)]
    /\ idx_busqueda' = SinBusqueda
    /\ UNCHANGED SalvoIDX

\* the set each criterion present in the dict adds to conjuntos_ids
ConjuntosIds(c) ==
    (IF c.estado # SinCriterio THEN {Lista(idx_indices.por_estado, c.estado)} ELSE {})
    \cup (IF c.objetivo_contiene # <<SinCriterio>>
            THEN {UNION { Lista(idx_indices.por_objetivo, ExtraerTokens(c.objetivo_contiene)[i]) :
                            i \in DOMAIN ExtraerTokens(c.objetivo_contiene) }}
            ELSE {})
    \cup (IF c.session_id # SinCriterio THEN {Lista(idx_indices.por_session, c.session_id)} ELSE {})
    \cup (IF c.fecha # SinCriterio THEN {Lista(idx_indices.por_fecha, c.fecha)} ELSE {})
    \cup (IF c.rendimiento_minimo # Ausente
            THEN {UNION { Lista(idx_indices.por_rendimiento, b) :
                            b \in ObtenerBandasRelevantes(c.rendimiento_minimo) }}
            ELSE {})

\* set.intersection(*conjuntos_ids)
Interseccion(conjuntos) == { id \in UNION conjuntos : \A S \in conjuntos : id \in S }

\* buscar_episodios(criterios)
BuscarEpisodios(c) == IF ConjuntosIds(c) # {} THEN Interseccion(ConjuntosIds(c)) ELSE {}

IdxBuscar ==
    /\ \E c \in Criterios :
         idx_busqueda' = [hecha |-> TRUE, criterios |-> c, ids |-> BuscarEpisodios(c)]
    /\ UNCHANGED <<idx_indices, idx_episodios>>
    /\ UNCHANGED SalvoIDX

(***************************************************************************)
(* SistemaMensajeria.consumir_mensajes (src/src/comunicacion/mensajeria.py)*)
(* The queue is consumed with acknowledgements required (cola.consume is   *)
(* called without no_ack).  wrapper_callback runs inside mensaje.process(),*)
(* whose exit acknowledges the message when the block ends without an      *)
(* exception; ack and nack on a message already processed raise            *)
(* MessageProcessError.                                                    *)
(***************************************************************************)
MaxMensajes == 3

InitMSG ==
    /\ msg_pc = "espera"
    /\ msg_auto_ack = FALSE
    /\ msg_falla = FALSE
    /\ msg_procesado = FALSE
    /\ msg_acks = 0
    /\ msg_nacks = 0
    /\ msg_error = "ninguno"
    /\ msg_hist = <<>>

\* the broker delivers a message: wrapper_callback enters mensaje.process()
MsgEntregar ==
    /\ msg_pc = "espera"
    /\ Len(msg_hist) < MaxMensajes
    /\ \E a \in BOOLEAN, f \in BOOLEAN :
         /\ msg_auto_ack' = a
         /\ msg_falla' = f
    /\ msg_pc' = "callback"
    /\ msg_procesado' = FALSE
    /\ msg_acks' = 0
    /\ msg_nacks' = 0
    /\ msg_error' = "ninguno"
    /\ UNCHANGED msg_hist
    /\ UNCHANGED SalvoMSG

\* json.loads and await callback(contenido, mensaje)
MsgCallback ==
    /\ msg_pc = "callback"
    /\ msg_pc' = IF msg_falla THEN "except" ELSE "ack"
    /\ UNCHANGED <<msg_auto_ack, msg_falla, msg_procesado, msg_acks, msg_nacks, msg_error,
                   msg_hist>>
    /\ UNCHANGED SalvoMSG

\* if not auto_ack: await mensaje.ack()
MsgAck ==
    /\ msg_pc = "ack"
    /\ IF msg_auto_ack
         THEN UNCHANGED <<msg_acks, msg_procesado>>
         ELSE /\ msg_acks' = msg_acks + 1
              /\ msg_procesado' = TRUE
    /\ msg_pc' = "salida"
    /\ UNCHANGED <<msg_auto_ack, msg_falla, msg_nacks, msg_error, msg_hist>>
    /\ UNCHANGED SalvoMSG

\* except Exception: if not auto_ack: await mensaje.nack(requeue=False)
MsgNack ==
    /\ msg_pc = "except"
    /\ IF msg_auto_ack
         THEN UNCHANGED <<msg_nacks, msg_procesado>>
         ELSE /\ msg_nacks' = msg_nacks + 1
              /\ msg_procesado' = TRUE
    /\ msg_pc' = "salida"
    /\ UNCHANGED <<msg_auto_ack, msg_falla, msg_acks, msg_error, msg_hist>>
    /\ UNCHANGED SalvoMSG

\* the end of "async with mensaje.process()": no exception leaves the block
\* (the except clause caught it), so the context manager calls mensaje.ack()
MsgSalirProcess ==
    /\ msg_pc = "salida"
    /\ IF msg_procesado
         THEN /\ msg_error' = "MessageProcessError"
              /\ UNCHANGED <<msg_acks, msg_procesado>>
         ELSE /\ msg_acks' = msg_acks + 1
              /\ msg_procesado' = TRUE
              /\ UNCHANGED msg_error
    /\ msg_pc' = "hecho"
    /\ UNCHANGED <<msg_auto_ack, msg_falla, msg_nacks, msg_hist>>
    /\ UNCHANGED SalvoMSG

\* wrapper_callback is over; the consumer waits for the next message
MsgSiguiente ==
    /\ msg_pc = "hecho"
    /\ msg_hist' = Append(msg_hist, [auto_ack |-> msg_auto_ack, falla |-> msg_falla,
                                     acks |-> msg_acks, nacks |-> msg_nacks,
                                     error |-> msg_error])
    /\ msg_pc' = "espera"
    /\ UNCHANGED <<msg_auto_ack, msg_falla, msg_procesado, msg_acks, msg_nacks, msg_error>>
    /\ UNCHANGED SalvoMSG

(***************************************************************************)
(* HerramientaBase.ejecutar_segura (src/src/herramientas/base.py) on one   *)
(* tool.  Calls overlap while they wait for ejecutar; what follows the     *)
(* await, _actualizar_metricas included, has no suspension point.          *)
(***************************************************************************)
MaxLlamadasHB == 5

InitHB ==
    /\ hb_metricas = [ejecuciones_totales |-> 0, ejecuciones_exitosas |-> 0,
                      ejecuciones_fallidas |-> 0]
    /\ hb_llamadas = 0
    /\ hb_en_curso = 0
    /\ hb_retornos = <<>>

\* a variant that counts an execution in the total only when it succeeded
ActualizarMetricasSoloExitos(metricas, exito) ==
    [ejecuciones_totales |-> metricas.ejecuciones_totales + (IF exito THEN 1 ELSE 0),
     ejecuciones_exitosas |-> metricas.ejecuciones_exitosas + (IF exito THEN 1 ELSE 0),
     ejecuciones_fallidas |-> metricas.ejecuciones_fallidas + (IF exito THEN 0 ELSE 1)]

\* _actualizar_metricas(exito, duracion)
ActualizarMetricas(metricas, exito) ==
    [ejecuciones_totales |-> metricas.ejecuciones_totales + 1,
     ejecuciones_exitosas |-> metricas.ejecuciones_exitosas + (IF exito THEN 1 ELSE 0),
     ejecuciones_fallidas |-> metricas.ejecuciones_fallidas + (IF exito THEN 0 ELSE 1)]

\* ejecutar_segura is called and suspends in await self.ejecutar(**parametros)
HbLlamar ==
    /\ hb_llamadas < MaxLlamadasHB
    /\ hb_llamadas' = hb_llamadas + 1
    /\ hb_en_curso' = hb_en_curso + 1
    /\ UNCHANGED <<hb_metricas, hb_retornos>>
    /\ UNCHANGED SalvoHB

\* ejecutar returns or raises for one of the suspended calls: the metrics are
\* updated and the result record returned
HbTerminar ==
    /\ hb_en_curso > 0
    /\ \E exito \in BOOLEAN :
         /\ hb_metricas' = ActualizarMetricas(hb_metricas, exito)
         /\ hb_retornos' = Append(hb_retornos, exito)
    /\ hb_en_curso' = hb_en_curso - 1
    /\ UNCHANGED hb_llamadas
    /\ UNCHANGED SalvoHB

(***************************************************************************)
(* ModuloAprendizajeOptimizacion._ejecutar_ciclo_completo                  *)
(* (src/src/aprendizaje/analizador_principal.py): one learning cycle.      *)
(* The four analyses are awaited with asyncio.gather(...,                  *)
(* return_exceptions=True).                                                *)
(***************************************************************************)
Analisis ==
    {"rendimiento_herramientas", "patrones_ejecucion", "optimizacion_secuencia",
     "deteccion_anomalias"}

ErroresAnalisis == {"ValueError", "KeyError"}

Pendiente == [excepcion |-> FALSE, valor |-> "pendiente"]

\* what an analysis coroutine that returns hands back
SalidaDe(a) == [excepcion |-> FALSE, valor |-> "salida de " \o a]

\* an analysis coroutine that raises e
ExcepcionDe(e) == [excepcion |-> TRUE, valor |-> e]

InitAP ==
    /\ ap_pc = "inactivo"
    /\ ap_desenlaces = [a \in Analisis |-> Pendiente]
    /\ ap_resultados = DictVacio
    /\ ap_recomendaciones = {}
    /\ ap_optimizado = FALSE
    /\ ap_error = "ninguno"

\* the cycle starts: with no recent episode it returns at once, otherwise the
\* four analysis coroutines are created and gathered
ApIniciar ==
    /\ ap_pc = "inactivo"
    /\ \E hay_episodios \in BOOLEAN :
         ap_pc' = IF hay_episodios THEN "analisis" ELSE "fin"
    /\ UNCHANGED <<ap_desenlaces, ap_resultados, ap_recomendaciones, ap_optimizado, ap_error>>
    /\ UNCHANGED SalvoAP

\* one of the analyses returns or raises, in any order
ApAnalisisTermina ==
    /\ ap_pc = "analisis"
    /\ \E a \in Analisis :
         /\ ap_desenlaces[a] = Pendiente
         /\ \E d \in {SalidaDe(a)} \cup { ExcepcionDe(e) : e \in ErroresAnalisis } :
              ap_desenlaces' = [ap_desenlaces EXCEPT ![a] = d]
    /\ UNCHANGED <<ap_pc, ap_resultados, ap_recomendaciones, ap_optimizado, ap_error>>
    /\ UNCHANGED SalvoAP

\* a gather that lets the first exception through
GatherSinCaptura(desenlaces) ==
    IF \E a \in DOMAIN desenlaces : desenlaces[a].excepcion
      THEN [lanza |-> TRUE,
            error |-> (CHOOSE e \in ErroresAnalisis :
                          \E a \in DOMAIN desenlaces : desenlaces[a] = ExcepcionDe(e)),
            valores |-> DictVacio]
      ELSE [lanza |-> FALSE, error |-> "ninguno", valores |-> desenlaces]

\* asyncio.gather(*tareas, return_exceptions=True): an exception is a value of
\* the result list, in the place of the coroutine that raised it
Gather(desenlaces) == [lanza |-> FALSE, error |-> "ninguno", valores |-> desenlaces]

\* the gather completes once every analysis has ended; the dict is built from
\* its list
ApReunir ==
    /\ ap_pc = "analisis"
    /\ \A a \in Analisis : ap_desenlaces[a] # Pendiente
    /\ IF Gather(ap_desenlaces).lanza
         THEN /\ ap_error' = Gather(ap_desenlaces).error
              /\ ap_pc' = "abortado"
              /\ UNCHANGED ap_resultados
         ELSE /\ ap_resultados' = Gather(ap_desenlaces).valores
              /\ ap_pc' = "recomendaciones"
              /\ UNCHANGED ap_error
    /\ UNCHANGED <<ap_desenlaces, ap_recomendaciones, ap_optimizado>>
    /\ UNCHANGED SalvoAP

\* _generar_recomendaciones(resultados_analisis): recommendations come from
\* analyses that have an output
ApGenerarRecomendaciones ==
    /\ ap_pc = "recomendaciones"
    /\ \E R \in SUBSET { a \in Analisis : ~ap_resultados[a].excepcion } :
         /\ ap_recomendaciones' = R
         /\ ap_pc' = IF R # {} THEN "optimizacion" ELSE "fin"
    /\ UNCHANGED <<ap_desenlaces, ap_resultados, ap_optimizado, ap_error>>
    /\ UNCHANGED SalvoAP

\* if recomendaciones: await self._aplicar_optimizaciones(recomendaciones)
ApAplicarOptimizaciones ==
    /\ ap_pc = "optimizacion"
    /\ ap_optimizado' = TRUE
    /\ ap_pc' = "fin"
    /\ UNCHANGED <<ap_desenlaces, ap_resultados, ap_recomendaciones, ap_error>>
    /\ UNCHANGED SalvoAP

(***************************************************************************)
(* ActualizadorPreferencias.aplicar_optimizaciones                         *)
(* (src/src/aprendizaje/actualizacion_preferencias.py), run twice with the *)
(* same optimizaciones.  Rates are in tenths, improvements in hundredths.  *)
(***************************************************************************)
UmbralMejora == 10

TiposTareaPREF == {"busqueda", "analisis"}

HerramientasPREF == {"A", "B"}

SinPreferencia == "None"

\* optimizacion.get('metricas', {}).get('tasa_exito', 0.7), when given
TasasExito == {1, 9}

\* _calcular_mejora_esperada: tasa_exito * 0.5
CalcularMejoraEsperada(optimizacion) ==
    (IF optimizacion.tasa_exito = Ausente THEN 7 ELSE optimizacion.tasa_exito) * 5

Optimizaciones ==
    [herramienta_recomendada : HerramientasPREF, tasa_exito : TasasExito \cup {Ausente}]

\* the Knowledge Store's obtener_preferencias_herramientas: the stored
\* preference of every task type
ObtenerPreferenciasHerramientas(almacen) ==
    [t \in DOMAIN almacen |-> [herramienta_preferida |-> almacen[t]]]

\* the Knowledge Store's actualizar_preferencia_herramienta
ActualizarPreferenciaHerramienta(almacen, tipo, herramienta) ==
    [almacen EXCEPT ![tipo] = herramienta]

InitPREF ==
    /\ pref_pc = "sin_construir"
    /\ pref_almacen = [t \in TiposTareaPREF |-> SinPreferencia]
    /\ pref_optimizaciones = DictVacio
    /\ pref_corrida = 0
    /\ pref_pendientes = {}
    /\ pref_tipo = "ninguno"
    /\ pref_actual = SinPreferencia
    /\ pref_cambios = <<{}, {}>>
    /\ pref_escrituras = <<>>

\* ActualizadorPreferencias(memoria, configuracion): the updater is given a
\* store that holds no preference or the preference "B" for each task type
PrefConstruir ==
    /\ pref_pc = "sin_construir"
    /\ pref_almacen' \in [TiposTareaPREF -> {SinPreferencia, "B"}]
    /\ pref_pc' = "inactivo"
    /\ UNCHANGED <<pref_optimizaciones, pref_corrida, pref_pendientes, pref_tipo, pref_actual,
                   pref_cambios, pref_escrituras>>
    /\ UNCHANGED SalvoPREF

\* aplicar_optimizaciones(optimizaciones) is called for the first time
PrefAplicar ==
    /\ pref_pc = "inactivo"
    /\ pref_corrida = 0
    /\ \E T \in (SUBSET TiposTareaPREF) \ {{}} : \E o \in [T -> Optimizaciones] :
         /\ pref_optimizaciones' = o
         /\ pref_pendientes' = T
    /\ pref_corrida' = 1
    /\ pref_pc' = "bucle"
    /\ UNCHANGED <<pref_almacen, pref_tipo, pref_actual, pref_cambios, pref_escrituras>>
    /\ UNCHANGED SalvoPREF

\* the re-run over the same window: the same optimizaciones again
PrefReaplicar ==
    /\ pref_pc = "retornado"
    /\ pref_corrida = 1
    /\ pref_pendientes' = DOMAIN pref_optimizaciones
    /\ pref_corrida' = 2
    /\ pref_pc' = "bucle"
    /\ UNCHANGED <<pref_almacen, pref_optimizaciones, pref_tipo, pref_actual, pref_cambios,
                   pref_escrituras>>
    /\ UNCHANGED SalvoPREF

\* the next item of the for loop: await self._obtener_herramienta_actual,
\* which answers None when the store raises
PrefObtenerActual ==
    /\ pref_pc = "bucle"
    /\ pref_pendientes # {}
    /\ \E t \in pref_pendientes :
         /\ pref_tipo' = t
         /\ pref_pendientes' = pref_pendientes \ {t}
         /\ \E lectura_falla \in BOOLEAN :
              pref_actual' =
                IF lectura_falla
                  THEN SinPreferencia
                  ELSE ObtenerPreferenciasHerramientas(pref_almacen)[t].herramienta_preferida
    /\ pref_pc' = "decidir"
    /\ UNCHANGED <<pref_almacen, pref_optimizaciones, pref_corrida, pref_cambios,
                   pref_escrituras>>
    /\ UNCHANGED SalvoPREF

\* the two tests that guard _actualizar_preferencia
DebeActualizar(actual, optimizacion) ==
    /\ actual # optimizacion.herramienta_recomendada
    /\ CalcularMejoraEsperada(optimizacion) >= UmbralMejora

\* the body of the loop after the read: the tests, and _actualizar_preferencia,
\* which answers False when the store raises
PrefDecidir ==
    /\ pref_pc = "decidir"
    /\ LET o == pref_optimizaciones[pref_tipo]
       IN IF DebeActualizar(pref_actual, o)
            THEN \E escritura_falla \in BOOLEAN :
                   IF escritura_falla
                     THEN UNCHANGED <<pref_almacen, pref_cambios, pref_escrituras>>
                     ELSE /\ pref_escrituras' =
                               Append(pref_escrituras,
                                      [corrida |-> pref_corrida, tipo |-> pref_tipo,
                                       antes |-> pref_almacen[pref_tipo],
                                       leida |-> pref_actual,
                                       nueva |-> o.herramienta_recomendada,
                                       mejora |-> CalcularMejoraEsperada(o)])
                          /\ pref_almacen' =
                               ActualizarPreferenciaHerramienta(
                                   pref_almacen, pref_tipo, o.herramienta_recomendada)
                          /\ pref_cambios' =
                               [pref_cambios EXCEPT ![pref_corrida] = @ \cup {pref_tipo}]
            ELSE UNCHANGED <<pref_almacen, pref_cambios, pref_escrituras>>
    /\ pref_pc' = "bucle"
    /\ UNCHANGED <<pref_optimizaciones, pref_corrida, pref_pendientes, pref_tipo, pref_actual>>
    /\ UNCHANGED SalvoPREF

\* return cambios_aplicados
PrefRetornar ==
    /\ pref_pc = "bucle"
    /\ pref_pendientes = {}
    /\ pref_pc' = "retornado"
    /\ UNCHANGED <<pref_almacen, pref_optimizaciones, pref_corrida, pref_pendientes, pref_tipo,
                   pref_actual, pref_cambios, pref_escrituras>>
    /\ UNCHANGED SalvoPREF

(***************************************************************************)
(* GestorMetricas.registrar_ejecucion (src/src/memoria/metricas.py).       *)
(* Rates and durations are exact fixed-point numbers: the integer n stands *)
(* for n / Escala, and Escala has one factor of ten per recorded execution *)
(* so that every moving average of the run is an integer.                  *)
(***************************************************************************)
MaxRegistros == 4

RECURSIVE Potencia10(_)
Potencia10(n) == IF n = 0 THEN 1 ELSE 10 * Potencia10(n - 1)

Escala == Potencia10(MaxRegistros + 1)

\* the smoothing factors a configuration gives, in tenths
Alphas == {0, 1, 5, 10}

AlphaDefault == 1

\* metricas_actuales.get('tasa_exito', 0.5)
TasaExitoDefault == Escala \div 2

\* resultado.get('duracion', 0), in seconds
Duraciones == {0, 2}

HabilidadesHAB == {"h1", "h0"}

\* the skill "h1" is stored, "h0" is not
HabilidadInicial(tasa) ==
    [metricas_rendimiento |-> [tasa_exito |-> tasa, tiempo_promedio |-> Ausente],
     estadisticas_uso |-> [total_ejecuciones |-> Ausente, ejecuciones_exitosas |-> Ausente,
                           ejecuciones_fallidas |-> Ausente]]

SinLlamada == [habilidad_id |-> "ninguna", exito |-> FALSE, duracion |-> 0]

SinRegistro == [exito |-> FALSE, anterior |-> 0, nueva |-> 0, alpha |-> 0, registrado |-> FALSE]

O(valor, defecto) == IF valor = Ausente THEN defecto ELSE valor

AlphaConfigurado == O(hab_alpha, AlphaDefault)

\* a variant that swaps the weights of the outcome and of the prior
MediaMovilInvertida(alpha, muestra, anterior) ==
    ((10 - alpha) * muestra + alpha * anterior) \div 10

\* alpha * muestra + (1 - alpha) * anterior
MediaMovil(alpha, muestra, anterior) ==
    (alpha * muestra + (10 - alpha) * anterior) \div 10

CalcularNuevasMetricas(metricas_actuales, resultado) ==
    LET exito_actual == IF resultado.exito THEN Escala ELSE 0
        tasa_exito_anterior == O(metricas_actuales.tasa_exito, TasaExitoDefault)
        tiempo_ejecucion == resultado.duracion * Escala
        tiempo_promedio_anterior == O(metricas_actuales.tiempo_promedio, 0)
    IN [tasa_exito |-> MediaMovil(AlphaConfigurado, exito_actual, tasa_exito_anterior),
        tiempo_promedio |->
            IF tiempo_ejecucion > 0
              THEN IF tiempo_promedio_anterior = 0
                     THEN tiempo_ejecucion
                     ELSE MediaMovil(AlphaConfigurado, tiempo_ejecucion,
                                     tiempo_promedio_anterior)
              ELSE metricas_actuales.tiempo_promedio]

ActualizarEstadisticas(estadisticas_actuales, resultado) ==
    [total_ejecuciones |-> O(estadisticas_actuales.total_ejecuciones, 0) + 1,
     ejecuciones_exitosas |->
         IF resultado.exito
           THEN O(estadisticas_actuales.ejecuciones_exitosas, 0) + 1
           ELSE estadisticas_actuales.ejecuciones_exitosas,
     ejecuciones_fallidas |->
         IF resultado.exito
           THEN estadisticas_actuales.ejecuciones_fallidas
           ELSE O(estadisticas_actuales.ejecuciones_fallidas, 0) + 1]

InitHAB ==
    /\ hab_alpha = Ausente
    /\ hab_base = HabilidadInicial(Ausente)
    /\ hab_pc = "sin_construir"
    /\ hab_llamada = SinLlamada
    /\ hab_registros = 0
    /\ hab_ultimo = SinRegistro

\* GestorMetricas(base_conocimiento, configuracion): the configuration gives
\* alpha_metricas or not, and the stored skill has a rate or none yet
HabConstruir ==
    /\ hab_pc = "sin_construir"
    /\ hab_alpha' \in Alphas \cup {Ausente}
    /\ hab_base' \in {HabilidadInicial(t) : t \in {Ausente, 0, Escala}}
    /\ hab_pc' = "inactivo"
    /\ UNCHANGED <<hab_llamada, hab_registros, hab_ultimo>>
    /\ UNCHANGED SalvoHAB

\* registrar_ejecucion up to the answer of await self.base.obtener_habilidad:
\* the store raises, the skill is not found, or the update is prepared
HabRegistrarEjecucion ==
    /\ hab_pc = "inactivo"
    /\ hab_registros < MaxRegistros
    /\ hab_registros' = hab_registros + 1
    /\ \E habilidad_id \in HabilidadesHAB, exito \in BOOLEAN, duracion \in Duraciones,
          base_falla \in BOOLEAN :
         IF base_falla \/ habilidad_id # "h1"
           THEN UNCHANGED <<hab_pc, hab_llamada>>
           ELSE /\ hab_pc' = "actualizar"
                /\ hab_llamada' = [habilidad_id |-> habilidad_id, exito |-> exito,
                                   duracion |-> duracion]
    /\ UNCHANGED <<hab_alpha, hab_base, hab_ultimo>>
    /\ UNCHANGED SalvoHAB

\* the new metrics and statistics, and await self.base.actualizar_habilidad,
\* whose exception is logged
HabActualizarHabilidad ==
    /\ hab_pc = "actualizar"
    /\ hab_pc' = "inactivo"
    /\ hab_llamada' = SinLlamada
    /\ \E base_falla \in BOOLEAN :
         IF base_falla
           THEN UNCHANGED <<hab_base, hab_ultimo>>
           ELSE LET nuevas == CalcularNuevasMetricas(hab_base.metricas_rendimiento, hab_llamada)
                IN /\ hab_base' =
                        [metricas_rendimiento |-> nuevas,
                         estadisticas_uso |->
                             ActualizarEstadisticas(hab_base.estadisticas_uso, hab_llamada)]
                   /\ hab_ultimo' =
                        [exito |-> hab_llamada.exito,
                         anterior |-> O(hab_base.metricas_rendimiento.tasa_exito,
                                        TasaExitoDefault),
                         nueva |-> nuevas.tasa_exito,
                         alpha |-> AlphaConfigurado,
                         registrado |-> TRUE]
    /\ UNCHANGED <<hab_alpha, hab_registros>>
    /\ UNCHANGED SalvoHAB

(***************************************************************************)
(* EstrategiaHibrida.descomponer_hibrido (src/src/mcp/estrategia_hibrida.py)*)
(* Confidences are in tenths.                                              *)
(***************************************************************************)
MaxTareasHIB == 2

IdsTareaHIB == {"t" \o ToString(i) : i \in 1..MaxTareasHIB}

\* the task lists a strategy can answer: tasks of one origin, and for the
\* stored skill no task ID twice
TareasDe(origen, ids) == [i \in DOMAIN ids |-> [id |-> ids[i], origen |-> origen]]

ListasDeIds == UNION {[1..n -> IdsTareaHIB] : n \in 0..MaxTareasHIB}

SinRepetir(ids) == \A i, j \in DOMAIN ids : ids[i] = ids[j] => i = j

\* the success rates of a skill the search filter '$gt': 0.7 lets through, and
\* the default 0.7 of a skill without statistics
ConfianzasHabilidad == {7, 8, 9}

ConfianzaRazonamiento == 7

UmbralConfianzaHibrida == 8

SinAsignar == [definido |-> FALSE]

PlanHabilidades(ids, confianza) ==
    [definido |-> TRUE, objetivo |-> "objetivo_habilidad", tareas |-> TareasDe("habilidad", ids),
     requisitos_recursos |-> {"cpu"}, estrategia |-> "basada_habilidades",
     confianza |-> confianza]

PlanRazonamiento(ids) ==
    [definido |-> TRUE, objetivo |-> "objetivo_razonado", tareas |-> TareasDe("razonamiento", ids),
     requisitos_recursos |-> {"cpu", "red"}, estrategia |-> "razonamiento",
     confianza |-> ConfianzaRazonamiento]

SinRetorno == [estado |-> "pendiente"]

Lanza(error) == [estado |-> "lanza", error |-> error]

Retorna(plan) == [estado |-> "retorna", plan |-> plan]

InitHIB ==
    /\ hib_pc = "inicio"
    /\ hib_plan_habilidades = SinAsignar
    /\ hib_plan_razonamiento = SinAsignar
    /\ hib_retorno = SinRetorno

\* plan_habilidades['metadatos']['confianza'] > 0.8
ConfianzaSuficiente(plan) == plan.confianza > UmbralConfianzaHibrida

\* step 1: await descomponer_con_habilidades, whose exception is logged
HibDescomponerConHabilidades ==
    /\ hib_pc = "inicio"
    /\ \E falla \in BOOLEAN :
         IF falla
           THEN /\ hib_pc' = "razonamiento"
                /\ UNCHANGED <<hib_plan_habilidades, hib_retorno>>
           ELSE \E ids \in {l \in ListasDeIds : SinRepetir(l)}, c \in ConfianzasHabilidad :
                  LET plan == PlanHabilidades(ids, c)
                  IN /\ hib_plan_habilidades' = plan
                     /\ IF ConfianzaSuficiente(plan)
                          THEN /\ hib_retorno' = Retorna(plan)
                               /\ hib_pc' = "fin"
                          ELSE /\ hib_pc' = "razonamiento"
                               /\ UNCHANGED hib_retorno
    /\ UNCHANGED hib_plan_razonamiento
    /\ UNCHANGED SalvoHIB

\* step 2: await descomponer_por_razonamiento, whose exception leaves through
\* the outer handler
HibDescomponerPorRazonamiento ==
    /\ hib_pc = "razonamiento"
    /\ \E falla \in BOOLEAN :
         IF falla
           THEN /\ hib_retorno' = Lanza("razonamiento")
                /\ hib_pc' = "fin"
                /\ UNCHANGED hib_plan_razonamiento
           ELSE \E ids \in ListasDeIds :
                  /\ hib_plan_razonamiento' = PlanRazonamiento(ids)
                  /\ hib_pc' = "combinar"
                  /\ UNCHANGED hib_retorno
    /\ UNCHANGED hib_plan_habilidades
    /\ UNCHANGED SalvoHIB

\* _tarea_existe: a task with the same ID is already in the list
TareaExiste(tarea, tareas) == \E i \in DOMAIN tareas : tareas[i].id = tarea.id

RECURSIVE AgregarNoCubiertas(_, _)
AgregarNoCubiertas(combinadas, tareas) ==
    IF tareas = <<>>
      THEN combinadas
      ELSE AgregarNoCubiertas(
               IF TareaExiste(Head(tareas), combinadas)
                 THEN combinadas
                 ELSE Append(combinadas, Head(tareas)),
               Tail(tareas))

CombinarPlanes(plan_habilidades, plan_razonamiento) ==
    [objetivo |-> plan_razonamiento.objetivo,
     tareas |-> AgregarNoCubiertas(plan_habilidades.tareas, plan_razonamiento.tareas),
     requisitos_recursos |->
         plan_habilidades.requisitos_recursos \cup plan_razonamiento.requisitos_recursos]

Max(a, b) == IF a >= b THEN a ELSE b

\* step 3: the arguments of _combinar_planes are evaluated, which fails on
\* the unbound plan_habilidades, and the combined plan is returned
HibCombinar ==
    /\ hib_pc = "combinar"
    /\ hib_pc' = "fin"
    /\ hib_retorno' =
         IF ~hib_plan_habilidades.definido
           THEN Lanza("UnboundLocalError")
           ELSE LET combinado == CombinarPlanes(hib_plan_habilidades, hib_plan_razonamiento)
                IN Retorna([definido |-> TRUE, objetivo |-> combinado.objetivo,
                            tareas |-> combinado.tareas,
                            requisitos_recursos |-> combinado.requisitos_recursos,
                            estrategia |-> "hibrida",
                            confianza |-> Max(hib_plan_habilidades.confianza,
                                              hib_plan_razonamiento.confianza)])
    /\ UNCHANGED <<hib_plan_habilidades, hib_plan_razonamiento>>
    /\ UNCHANGED SalvoHIB

(***************************************************************************)
(* RegistroHerramientas (src/src/herramientas/registro.py).  Success rates *)
(* are in tenths, fitness scores in thousandths.                           *)
(***************************************************************************)
MaxRegistrosREG == 2

NombresREG == {"h1", "h2"}

CategoriasREG == {"busqueda_web", "api_rest", "llm"}

\* the category lists a tool is registered with
CategoriasDeRegistro == {<<"busqueda_web">>, <<"busqueda_web", "api_rest">>, <<"llm">>}

TiposTareaREG == {"busqueda", "generacion", "otro"}

\* mapeo_tareas.get(tipo_tarea, []), over the categories of the model
MapeoTareas(tipo_tarea) ==
    CASE tipo_tarea = "busqueda" -> <<"busqueda_web", "api_rest">>
      [] tipo_tarea = "generacion" -> <<"llm", "generacion_texto">>
      [] OTHER -> <<>>

\* the metricas of a tool instance: tasa_exito may be missing
MetricasREG == [tasa_exito : {Ausente, 6}, ejecuciones_exitosas : {10, 20}]

InitREG ==
    /\ reg_herramientas = DictVacio
    /\ reg_categorias = [c \in CategoriasREG |-> <<>>]
    /\ reg_registros = 0
    /\ reg_lista = <<>>

RECURSIVE AnexarACategorias(_, _, _)
AnexarACategorias(categorias_herramientas, categorias, nombre) ==
    IF categorias = <<>>
      THEN categorias_herramientas
      ELSE AnexarACategorias(
               [categorias_herramientas EXCEPT ![Head(categorias)] = Append(@, nombre)],
               Tail(categorias), nombre)

\* registrar_herramienta(herramienta_instance, categorias)
RegRegistrarHerramienta ==
    /\ reg_registros < MaxRegistrosREG
    /\ reg_registros' = reg_registros + 1
    /\ \E nombre \in NombresREG, metricas \in MetricasREG, categorias \in CategoriasDeRegistro :
         /\ reg_herramientas' =
              [n \in DOMAIN reg_herramientas \cup {nombre} |->
                   IF n = nombre THEN metricas ELSE reg_herramientas[n]]
         /\ reg_categorias' = AnexarACategorias(reg_categorias, categorias, nombre)
    /\ reg_lista' = <<>>
    /\ UNCHANGED SalvoREG

\* obtener_herramientas_por_categoria: the registered names of the category
ObtenerHerramientasPorCategoria(categoria) ==
    IF categoria \in DOMAIN reg_categorias
      THEN SelectSeq(reg_categorias[categoria], LAMBDA n : n \in DOMAIN reg_herramientas)
      ELSE <<>>

RECURSIVE ExtenderPorCategorias(_)
ExtenderPorCategorias(categorias) ==
    IF categorias = <<>>
      THEN <<>>
      ELSE ObtenerHerramientasPorCategoria(Head(categorias))
             \o ExtenderPorCategorias(Tail(categorias))

\* the sort key: x.metricas.get('tasa_exito', 0)
ClaveOrden(nombre) == O(reg_herramientas[nombre].tasa_exito, 0)

\* sorted(..., reverse=True) is stable: a name goes behind every name whose
\* key is at least its own
RECURSIVE InsertarOrdenado(_, _)
InsertarOrdenado(ordenadas, nombre) ==
    IF ordenadas = <<>>
      THEN <<nombre>>
      ELSE IF ClaveOrden(Head(ordenadas)) >= ClaveOrden(nombre)
             THEN <<Head(ordenadas)>> \o InsertarOrdenado(Tail(ordenadas), nombre)
             ELSE <<nombre>> \o ordenadas

RECURSIVE OrdenarPorTasa(_)
OrdenarPorTasa(nombres) ==
    IF nombres = <<>>
      THEN <<>>
      ELSE InsertarOrdenado(OrdenarPorTasa(SubSeq(nombres, 1, Len(nombres) - 1)),
                            nombres[Len(nombres)])

Min(a, b) == IF a <= b THEN a ELSE b

\* _calcular_idoneidad
CalcularIdoneidad(metricas) ==
    LET tasa_exito == O(metricas.tasa_exito, 5) * 100
        base == 500 + ((tasa_exito - 500) * 3) \div 10
        experiencia == IF metricas.ejecuciones_exitosas > 10 THEN 100 ELSE 0
    IN Max(100, Min(1000, base + experiencia))

\* the first category of categorias_herramientas that holds the name
CategoriaDe(nombre) ==
    IF \E c \in CategoriasREG : \E i \in DOMAIN reg_categorias[c] : reg_categorias[c][i] = nombre
      THEN CHOOSE c \in CategoriasREG :
               \E i \in DOMAIN reg_categorias[c] : reg_categorias[c][i] = nombre
      ELSE "general"

\* obtener_herramientas_por_tipo_tarea(tipo_tarea)
RegObtenerPorTipoTarea ==
    /\ \E tipo_tarea \in TiposTareaREG :
         LET ordenadas == OrdenarPorTasa(ExtenderPorCategorias(MapeoTareas(tipo_tarea)))
         IN reg_lista' =
              [i \in DOMAIN ordenadas |->
                   [herramienta |-> ordenadas[i],
                    categoria |-> CategoriaDe(ordenadas[i]),
                    metricas |-> reg_herramientas[ordenadas[i]],
                    idoneidad |-> CalcularIdoneidad(reg_herramientas[ordenadas[i]])]]
    /\ UNCHANGED <<reg_herramientas, reg_categorias, reg_registros>>
    /\ UNCHANGED SalvoREG

(***************************************************************************)
(* MecanismoReintentos.ejecutar_con_reintentos                             *)
(* (src/src/met/ejecucion/mecanismo_reintentos.py).  Delays are in seconds.*)
(***************************************************************************)
MaxReintentosRTY == 3

Backoffs == {"ninguno", "lineal", "exponencial", "fibonacci", "otro"}

\* _estrategia_default
EstrategiaDefault ==
    [max_reintentos |-> 3, delay |-> 2, backoff |-> "exponencial", base |-> 2]

\* the strategies a caller passes
Estrategias ==
    [max_reintentos : 1..MaxReintentosRTY, delay : {2}, backoff : Backoffs, base : {2}]

RECURSIVE Potencia(_, _)
Potencia(b, n) == IF n = 0 THEN 1 ELSE b * Potencia(b, n - 1)

\* _fibonacci(n)
RECURSIVE FibonacciPar(_, _, _)
FibonacciPar(a, b, n) == IF n = 0 THEN a ELSE FibonacciPar(b, a + b, n - 1)

Fibonacci(n) == FibonacciPar(0, 1, n)

\* _calcular_delay(reintento_actual, estrategia)
CalcularDelay(reintento_actual, estrategia) ==
    CASE estrategia.backoff = "ninguno" -> estrategia.delay
      [] estrategia.backoff = "lineal" -> estrategia.delay * reintento_actual
      [] estrategia.backoff = "exponencial" ->
             estrategia.delay * Potencia(estrategia.base, reintento_actual)
      [] estrategia.backoff = "fibonacci" -> estrategia.delay * Fibonacci(reintento_actual)
      [] OTHER -> estrategia.delay

InitRTY ==
    rty = [pc |-> "inactivo", estrategia |-> EstrategiaDefault, reintento_actual |-> 0,
           intentos |-> 0, sleeps |-> <<>>, retorno |-> "ninguno"]

\* ejecutar_con_reintentos(funcion, estrategia=...): estrategia or the default
RtyEjecutarConReintentos ==
    /\ rty.pc = "inactivo"
    /\ \E estrategia \in Estrategias \cup {EstrategiaDefault} :
         rty' = [pc |-> "bucle", estrategia |-> estrategia, reintento_actual |-> 0,
                 intentos |-> 0, sleeps |-> <<>>, retorno |-> "ninguno"]
    /\ UNCHANGED SalvoRTY

\* one turn of the while loop: await funcion(...), then _manejar_fallo or
\* _manejar_excepcion with its asyncio.sleep(delay)
RtyIntento ==
    /\ rty.pc = "bucle"
    /\ rty.reintento_actual < rty.estrategia.max_reintentos
    /\ \E desenlace \in {"exito", "fallo", "excepcion"} :
         LET siguiente == rty.reintento_actual + 1
             agotado == siguiente >= rty.estrategia.max_reintentos
         IN rty' =
              IF desenlace = "exito"
                THEN [rty EXCEPT !.pc = "fin", !.intentos = @ + 1, !.retorno = "resultado"]
                ELSE IF agotado /\ desenlace = "excepcion"
                       THEN [rty EXCEPT !.pc = "fin", !.intentos = @ + 1,
                                        !.reintento_actual = siguiente,
                                        !.retorno = "lanza_error"]
                       ELSE IF agotado
                              THEN [rty EXCEPT !.intentos = @ + 1,
                                               !.reintento_actual = siguiente]
                              ELSE [rty EXCEPT !.intentos = @ + 1,
                                               !.reintento_actual = siguiente,
                                               !.sleeps =
                                                   Append(@, CalcularDelay(siguiente,
                                                                           rty.estrategia))]
    /\ UNCHANGED SalvoRTY

\* the loop condition fails: raise Exception("Fallo después de ... reintentos")
RtyAgotado ==
    /\ rty.pc = "bucle"
    /\ rty.reintento_actual >= rty.estrategia.max_reintentos
    /\ rty' = [rty EXCEPT !.pc = "fin", !.retorno = "lanza_fallo"]
    /\ UNCHANGED SalvoRTY

\* the next call
RtyOtraVez ==
    /\ rty.pc = "fin"
    /\ rty' = [rty EXCEPT !.pc = "inactivo"]
    /\ UNCHANGED SalvoRTY

(***************************************************************************)
(* TracingIntegrado (src/src/integracion/tracing.py).  A span keeps its    *)
(* module, whether 'duracion' is still None, and its 'exito' once set.     *)
(***************************************************************************)
MaxTraces == 2

MaxSpans == 2

ModulosTRC == {"MCP", "MET"}

\* f"trace_{uuid.uuid4().hex[:16]}": a fresh identifier for every trace
TraceId(n) == "trace_" \o ToString(n)

SinTrace == [trace_id |-> "ninguno", spans |-> <<>>, estado |-> "ninguno", metricas |-> 0]

InitTRC ==
    trc = [traces_activos |-> DictVacio, iniciados |-> 0, retornado |-> SinTrace]

\* iniciar_trace(operacion, metadata)
TrcIniciarTrace ==
    /\ trc.iniciados < MaxTraces
    /\ LET trace_id == TraceId(trc.iniciados + 1)
       IN trc' = [trc EXCEPT
                    !.iniciados = @ + 1,
                    !.traces_activos =
                        [t \in DOMAIN @ \cup {trace_id} |->
                             IF t = trace_id THEN <<>> ELSE @[t]]]
    /\ UNCHANGED SalvoTRC

\* agregar_span(trace_id, modulo, accion): ignored for an unknown trace
TrcAgregarSpan ==
    /\ \E n \in 1..MaxTraces, modulo \in ModulosTRC :
         LET trace_id == TraceId(n)
         IN /\ trace_id \in DOMAIN trc.traces_activos => 
                 Len(trc.traces_activos[trace_id]) < MaxSpans
            /\ trc' =
                 IF trace_id \notin DOMAIN trc.traces_activos
                   THEN trc
                   ELSE [trc EXCEPT !.traces_activos[trace_id] =
                             Append(@, [modulo |-> modulo, duracion_none |-> TRUE,
                                        exito |-> "sin_fijar"])]
    /\ UNCHANGED SalvoTRC

\* the index of the last span of the module whose duracion is None, 0 if none
UltimoSpanAbierto(spans, modulo) ==
    LET abiertos == {i \in DOMAIN spans :
                         spans[i].modulo = modulo /\ spans[i].duracion_none}
    IN IF abiertos = {} THEN 0 ELSE CHOOSE i \in abiertos : \A j \in abiertos : j <= i

\* finalizar_span(trace_id, modulo, exito)
TrcFinalizarSpan ==
    /\ \E n \in 1..MaxTraces, modulo \in ModulosTRC, exito \in BOOLEAN :
         LET trace_id == TraceId(n)
         IN /\ trace_id \in DOMAIN trc.traces_activos
            /\ LET i == UltimoSpanAbierto(trc.traces_activos[trace_id], modulo)
               IN /\ i # 0
                  /\ trc' = [trc EXCEPT !.traces_activos[trace_id][i] =
                                 [modulo |-> modulo, duracion_none |-> FALSE,
                                  exito |-> IF exito THEN "si" ELSE "no"]]
    /\ UNCHANGED SalvoTRC

\* _calcular_metricas_trace(trace): the aggregate of a trace, here the number
\* of its spans
CalcularMetricasTrace(spans) == Len(spans)

\* finalizar_trace(trace_id, exito): the trace is completed, removed from
\* traces_activos and returned
TrcFinalizarTrace ==
    /\ \E n \in 1..MaxTraces :
         LET trace_id == TraceId(n)
         IN /\ trace_id \in DOMAIN trc.traces_activos
            /\ trc' = [trc EXCEPT
                         !.retornado =
                             [trace_id |-> trace_id, spans |-> trc.traces_activos[trace_id],
                              estado |-> "completado",
                              metricas |-> CalcularMetricasTrace(trc.traces_activos[trace_id])],
                         !.traces_activos =
                             [t \in DOMAIN @ \ {trace_id} |-> @[t]]]
    /\ UNCHANGED SalvoTRC

(***************************************************************************)
(* RegistradorMetadatos (src/src/met/metadatos/registro_metadatos.py).     *)
(* Records are numbered in the order registrar_metadatos receives them;    *)
(* episodios[n] counts the guardar_episodio calls that stored record n.    *)
(***************************************************************************)
MaxMetadatos == 4

\* configuracion['tamano_buffer']
TamanoBufferRGM == 2

InitRGM ==
    rgm = [buffer_metadatos |-> <<>>, episodios |-> <<>>, habilidades |-> 0,
           retorno |-> "ninguno"]

\* _enriquecer_metadatos: the record plus version, timestamp, hash and context
EnriquecerMetadatos(metadatos) ==
    [id |-> metadatos.id, estado |-> metadatos.estado, version_metadatos |-> "1.0"]

\* Where a call into memoria raises: <<i, "guardar_episodio">> or
\* <<i, "guardar_habilidad">> for the i-th record stored, <<n + 1, "ninguno">>
\* when all n records are stored.
FallosRGM(registros) ==
    {<<i, "guardar_episodio">> : i \in 1..Len(registros)}
        \cup {<<i, "guardar_habilidad">> :
                 i \in {j \in 1..Len(registros) : registros[j].estado = "exito"}}
        \cup {<<Len(registros) + 1, "ninguno">>}

\* _almacenar_directo applied to registros[1], registros[2], ... until fallo
AlmacenarDirecto(r, registros, fallo) ==
    LET episodio(j) == j < fallo[1] \/ (j = fallo[1] /\ fallo[2] = "guardar_habilidad")
        guardados == {registros[j].id : j \in {k \in 1..Len(registros) : episodio(k)}}
        extraidos == {j \in 1..Len(registros) :
                         j < fallo[1] /\ registros[j].estado = "exito"}
    IN [r EXCEPT !.episodios = [n \in DOMAIN r.episodios |->
                                   r.episodios[n] + (IF n \in guardados THEN 1 ELSE 0)],
                 !.habilidades = r.habilidades + Cardinality(extraidos)]

\* _procesar_buffer: the buffer is cleared only when no call raised
ProcesarBuffer(r, fallo) ==
    IF r.buffer_metadatos = <<>> THEN r
    ELSE LET almacenado == AlmacenarDirecto(r, r.buffer_metadatos, fallo)
         IN IF fallo[2] = "ninguno"
            THEN [almacenado EXCEPT !.buffer_metadatos = <<>>]
            ELSE almacenado

\* registrar_metadatos(metadatos, almacenamiento_inmediato)
RgmRegistrarMetadatos ==
    /\ Len(rgm.episodios) < MaxMetadatos
    /\ \E estado \in {"exito", "fallo"}, almacenamiento_inmediato \in BOOLEAN :
         LET id == Len(rgm.episodios) + 1
             metadatos_completos == EnriquecerMetadatos([id |-> id, estado |-> estado])
             recibido == [rgm EXCEPT !.episodios = Append(@, 0)]
         IN IF almacenamiento_inmediato
            THEN \E fallo \in FallosRGM(<<metadatos_completos>>) :
                   rgm' = [AlmacenarDirecto(recibido, <<metadatos_completos>>, fallo)
                               EXCEPT !.retorno = IF fallo[2] = "ninguno"
                                                  THEN "episodio" ELSE "error"]
            ELSE LET anexado == [recibido EXCEPT
                                    !.buffer_metadatos = Append(@, metadatos_completos),
                                    !.retorno = "buffered"]
                 IN IF Len(anexado.buffer_metadatos) >= TamanoBufferRGM
                    THEN \E fallo \in FallosRGM(anexado.buffer_metadatos) :
                           rgm' = ProcesarBuffer(anexado, fallo)
                    ELSE rgm' = anexado
    /\ UNCHANGED SalvoRGM

(***************************************************************************)
(* BufferTareas (src/src/memoria/estructuras/buffer_tareas.py).  An entry  *)
(* keeps its tarea_id and estado.                                          *)
(***************************************************************************)
\* capacidad_maxima, the maxlen of the deque
CapacidadMaximaBUF == 2

TareasBUF == {"t1", "t2", "t3"}

SinEntrada == [tarea_id |-> "None", estado |-> "None"]

InitBUF ==
    buf = [buffer |-> <<>>, indices |-> DictVacio,
           retorno |-> [pedido |-> "None", valor |-> SinEntrada]]

\* deque.append with maxlen: a full deque drops its leftmost element
DequeAppend(buffer, entrada) ==
    IF Len(buffer) >= CapacidadMaximaBUF
    THEN Append(Tail(buffer), entrada)
    ELSE Append(buffer, entrada)

\* agregar_tarea(tarea_id, resultado)
BufAgregarTarea ==
    /\ \E tarea_id \in TareasBUF, estado \in {"completada", "pendiente"} :
         LET entrada == [tarea_id |-> tarea_id, estado |-> estado]
             buffer == DequeAppend(buf.buffer, entrada)
         IN buf' = [buf EXCEPT
                       !.buffer = buffer,
                       !.indices = [c \in DOMAIN buf.indices \cup {tarea_id} |->
                                       IF c = tarea_id THEN Len(buffer) - 1
                                       ELSE buf.indices[c]]]
    /\ UNCHANGED SalvoBUF

\* obtener_tarea as a function of the buffer
ObtenerTarea(b, tarea_id) ==
    IF tarea_id \in DOMAIN b.indices /\ b.indices[tarea_id] < Len(b.buffer)
    THEN b.buffer[b.indices[tarea_id] + 1]
    ELSE SinEntrada

\* obtener_tarea(tarea_id)
BufObtenerTarea ==
    /\ \E tarea_id \in TareasBUF :
         buf' = [buf EXCEPT !.retorno = [pedido |-> tarea_id,
                                         valor |-> ObtenerTarea(buf, tarea_id)]]
    /\ UNCHANGED SalvoBUF

\* limpiar_completadas()
BufLimpiarCompletadas ==
    /\ LET tareas_a_mantener == SelectSeq(buf.buffer, LAMBDA t : t.estado # "completada")
           ids == {tareas_a_mantener[i].tarea_id : i \in DOMAIN tareas_a_mantener}
       IN buf' = [buf EXCEPT
                     !.buffer = tareas_a_mantener,
                     !.indices = [c \in ids |->
                                     (CHOOSE i \in DOMAIN tareas_a_mantener :
                                         /\ tareas_a_mantener[i].tarea_id = c
                                         /\ \A j \in DOMAIN tareas_a_mantener :
                                                tareas_a_mantener[j].tarea_id = c => j <= i)
                                         - 1]]
    /\ UNCHANGED SalvoBUF

(***************************************************************************)
(* GestorEstadoCompartido.contexto_consistencia                            *)
(* (src/src/integracion/gestion_estado.py).  Callers are coroutines; each  *)
(* one is outside, awaiting lock.acquire, or inside the protected block.   *)
(***************************************************************************)
MaxLlamadoresGEC == 3

LlamadoresGEC == 1..MaxLlamadoresGEC

RecursosGEC == {"r1", "r2"}

Libre == 0

InitGEC ==
    gec = [locks |-> [r \in RecursosGEC |-> Libre],
           pc |-> [c \in LlamadoresGEC |-> "fuera"],
           recurso |-> [c \in LlamadoresGEC |-> "r1"]]

\* _obtener_lock(recurso): the one lock of the resource
ObtenerLock(recurso) == recurso

\* lock.locked()
Locked(lock) == gec.locks[lock] # Libre

\* lock.release()
Release(locks, lock) == [locks EXCEPT ![lock] = Libre]

\* the finally block of contexto_consistencia
Finalmente(lock) == IF Locked(lock) THEN Release(gec.locks, lock) ELSE gec.locks

\* contexto_consistencia(recurso, timeout) up to the await of lock.acquire
GecEntrar ==
    /\ \E c \in LlamadoresGEC, recurso \in RecursosGEC :
         /\ gec.pc[c] = "fuera"
         /\ gec' = [gec EXCEPT !.pc[c] = "adquiriendo",
                               !.recurso[c] = ObtenerLock(recurso)]
    /\ UNCHANGED SalvoGEC

\* lock.acquire returned True: the caller is at the yield
GecAdquirido ==
    /\ \E c \in LlamadoresGEC :
         /\ gec.pc[c] = "adquiriendo"
         /\ ~Locked(gec.recurso[c])
         /\ gec' = [gec EXCEPT !.pc[c] = "dentro", !.locks[gec.recurso[c]] = c]
    /\ UNCHANGED SalvoGEC

\* lock.acquire returned False after the timeout (TimeoutError is raised),
\* or raised itself; the finally block runs
GecNoAdquirido ==
    /\ \E c \in LlamadoresGEC, motivo \in {"timeout", "excepcion"} :
         /\ gec.pc[c] = "adquiriendo"
         /\ motivo = "timeout" => Locked(gec.recurso[c])
         /\ gec' = [gec EXCEPT !.pc[c] = "fuera",
                               !.locks = Finalmente(gec.recurso[c])]
    /\ UNCHANGED SalvoGEC

\* the protected block ends (normally or by an exception); the finally block runs
GecSalir ==
    /\ \E c \in LlamadoresGEC :
         /\ gec.pc[c] = "dentro"
         /\ gec' = [gec EXCEPT !.pc[c] = "fuera",
                               !.locks = Finalmente(gec.recurso[c])]
    /\ UNCHANGED SalvoGEC

(***************************************************************************)
(* ModuloComprensionPlanificacion._consultar_planes_similares              *)
(* (src/src/sistema/mcp.py).  A stored plan names the goal it was made for;*)
(* memoria.buscar_habilidades(objetivo) returns the plans of that goal.    *)
(***************************************************************************)
\* hash(objetivo) % 1000
ModuloCache == 1000

\* hash values reach MaxVueltasCCH times around the modulus
MaxVueltasCCH == 1

ObjetivosCCH == {"buscar datos", "crear informe", "resumir texto"}

\* str hashes are salted per process: any assignment of values to goals
HashesCCH == {v * ModuloCache + r : v \in 0..MaxVueltasCCH, r \in 0..1}

InitCCH ==
    cch = [hash |-> DictVacio, cache_planes |-> DictVacio,
           retorno |-> [objetivo |-> "ninguno", planes |-> <<>>]]

\* the interpreter starts and fixes hash(); __init__ leaves cache_planes empty
CchConstruir ==
    /\ cch.hash = DictVacio
    /\ \E hash \in [ObjetivosCCH -> HashesCCH] :
         cch' = [cch EXCEPT !.hash = hash]
    /\ UNCHANGED SalvoCCH

\* f"plan_query_{hash(objetivo) % 1000}"
CacheKey(hash, objetivo) == hash[objetivo] % ModuloCache

\* _es_plan_valido(plan)
EsPlanValido(plan) == plan.tareas /\ plan.objetivo # "" /\ plan.tipo = "plan"

\* _consultar_planes_similares(objetivo)
CchConsultarPlanesSimilares ==
    /\ cch.hash # DictVacio
    /\ \E objetivo \in ObjetivosCCH, falla \in BOOLEAN, con_tareas \in BOOLEAN :
         LET cache_key == CacheKey(cch.hash, objetivo)
             resultados == <<[objetivo |-> objetivo, tipo |-> "plan", tareas |-> con_tareas]>>
             planes == SelectSeq(resultados, EsPlanValido)
         IN IF cache_key \in DOMAIN cch.cache_planes
            THEN cch' = [cch EXCEPT !.retorno = [objetivo |-> objetivo,
                                                 planes |-> cch.cache_planes[cache_key]]]
            ELSE IF falla
            THEN cch' = [cch EXCEPT !.retorno = [objetivo |-> objetivo, planes |-> <<>>]]
            ELSE cch' = [cch EXCEPT
                            !.cache_planes =
                                [k \in DOMAIN cch.cache_planes \cup {cache_key} |->
                                    IF k = cache_key THEN planes ELSE cch.cache_planes[k]],
                            !.retorno = [objetivo |-> objetivo, planes |-> planes]]
    /\ UNCHANGED SalvoCCH

(***************************************************************************)
(* GestorSesiones (src/src/memoria/gestor_sesiones.py).  A session's       *)
(* MemoriaTrabajo is kept as the time it was last written or read.         *)
(***************************************************************************)
MaxRelojSES == 4

\* configuracion['timeout_sesion'], in ticks of the clock
TimeoutSesionSES == 1

SesionesSES == {"s1", "s2"}

InitSES ==
    gse = [reloj |-> 0, sesiones_activas |-> DictVacio, ultima |-> "init", retorno |-> 0]

\* time.time() advances
SesTic ==
    /\ gse.reloj < MaxRelojSES
    /\ gse' = [gse EXCEPT !.reloj = @ + 1, !.ultima = "tic"]
    /\ UNCHANGED SalvoSES

\* eliminar_sesion(session_id) on the dictionary
EliminarSesion(sesiones, session_id) ==
    [s \in DOMAIN sesiones \ {session_id} |-> sesiones[s]]

\* crear_sesion(session_id): an existing session is removed and rebuilt
SesCrearSesion ==
    /\ \E session_id \in SesionesSES :
         LET previas == EliminarSesion(gse.sesiones_activas, session_id)
         IN gse' = [gse EXCEPT
                       !.sesiones_activas =
                           [s \in DOMAIN previas \cup {session_id} |->
                               IF s = session_id THEN [ultimo_acceso |-> gse.reloj]
                               ELSE previas[s]],
                       !.ultima = "crear"]
    /\ UNCHANGED SalvoSES

\* obtener_sesion(session_id) followed by a guardar or obtener on the memory
SesUsarSesion ==
    /\ \E session_id \in DOMAIN gse.sesiones_activas :
         gse' = [gse EXCEPT !.sesiones_activas[session_id].ultimo_acceso = gse.reloj,
                            !.ultima = "usar"]
    /\ UNCHANGED SalvoSES

\* MemoriaTrabajo.obtener_estadisticas() called at time ahora
ObtenerEstadisticasSES(memoria, ahora) ==
    [timestamp_ultima_limpieza |-> ahora, ultimo_acceso |-> memoria.ultimo_acceso]

\* limpiar_sesiones_expiradas()
SesLimpiarSesionesExpiradas ==
    /\ LET ahora == gse.reloj
           sesiones_a_eliminar ==
               {s \in DOMAIN gse.sesiones_activas :
                   ahora - ObtenerEstadisticasSES(gse.sesiones_activas[s], gse.reloj)
                               .timestamp_ultima_limpieza > TimeoutSesionSES}
       IN gse' = [gse EXCEPT
                     !.sesiones_activas =
                         [s \in DOMAIN gse.sesiones_activas \ sesiones_a_eliminar |->
                             gse.sesiones_activas[s]],
                     !.ultima = "limpiar",
                     !.retorno = Cardinality(sesiones_a_eliminar)]
    /\ UNCHANGED SalvoSES

(***************************************************************************)
(* NucleoSAAM.  One goal is processed.                                     *)
(***************************************************************************)
NoSalidaORC == [tipo |-> "ninguna", estado |-> "ninguno", error |-> NoError, episodio_id |-> 0]

InitORC ==
    /\ orc_pc = "inactivo"
    /\ orc_plan = <<>>
    /\ orc_idx = 0
    /\ orc_despachadas = <<>>
    /\ orc_resultados = <<>>
    /\ orc_eventos = <<>>
    /\ orc_error = NoError
    /\ orc_salida = NoSalidaORC
    /\ episodios = <<>>
    /\ aprendizaje = <<>>
    /\ wm = {}

InitPLN ==
    /\ pln_candidato = <<>>
    /\ pln_errores = {}
    /\ pln_intentos = 0

InitMas == InitEPI /\ InitIDX /\ InitMSG /\ InitHB /\ InitAP /\ InitPREF /\ InitHAB /\ InitHIB /\ InitREG /\ InitRTY /\ InitTRC /\ InitRGM /\ InitBUF /\ InitGEC /\ InitCCH /\ InitSES

Init == InitMET /\ InitORC /\ InitPLN /\ InitTMO /\ InitMT /\ InitVAL /\ InitMas

\* an exception reaches the except block of procesar_objetivo
Lanzar(e) ==
    /\ orc_error' = e
    /\ orc_pc' = "error"

\* procesar_objetivo is called
OrcProcesarObjetivo ==
    /\ orc_pc = "inactivo"
    /\ orc_pc' = "planificacion"
    /\ UNCHANGED <<orc_plan, orc_idx, orc_despachadas, orc_resultados, orc_eventos,
                   orc_error, orc_salida, episodios, aprendizaje, wm>>
    /\ UNCHANGED <<varsMET, varsPLN, varsOtros>>

(***************************************************************************)
(* _fase_planificacion up to the planner call: sm3.inicializar_sesion and  *)
(* sm3.consultar_planes_similares, either of which may fail.               *)
(***************************************************************************)
OrcPlanificar ==
    /\ orc_pc = "planificacion"
    /\ \E falla \in BOOLEAN :
         IF falla THEN Lanzar("StoreError_planificacion")
         ELSE /\ orc_pc' = "pln_generar"
              /\ UNCHANGED orc_error
    /\ UNCHANGED <<orc_plan, orc_idx, orc_despachadas, orc_resultados, orc_eventos,
                   orc_salida, episodios, aprendizaje, wm>>
    /\ UNCHANGED <<varsMET, varsPLN, varsOtros>>

(***************************************************************************)
(* The planner.  The language model answers with a candidate plan.         *)
(***************************************************************************)
PlnGenerar ==
    /\ orc_pc = "pln_generar"
    /\ \E cand \in PlanesCandidatos : pln_candidato' = cand
    /\ pln_errores' = {}
    /\ orc_pc' = "pln_validar"
    /\ UNCHANGED pln_intentos
    /\ UNCHANGED <<orc_plan, orc_idx, orc_despachadas, orc_resultados, orc_eventos,
                   orc_error, orc_salida, episodios, aprendizaje, wm>>
    /\ UNCHANGED <<varsMET, varsOtros>>

(***************************************************************************)
(* The candidate is validated: a valid plan is optimised and returned to   *)
(* the orchestrator, an invalid one is rejected with its errors.           *)
(***************************************************************************)
PlnValidar ==
    /\ orc_pc = "pln_validar"
    /\ pln_errores' = ValidarPlan(pln_candidato)
    /\ IF ValidarPlan(pln_candidato) = {}
         THEN /\ orc_plan' = OptimizarPlan(pln_candidato)
              /\ pln_candidato' = <<>>
              /\ pln_intentos' = 0
              /\ orc_pc' = "guardar_plan"
         ELSE /\ orc_pc' = "pln_rechazado"
              /\ UNCHANGED <<orc_plan, pln_candidato, pln_intentos>>
    /\ UNCHANGED <<orc_idx, orc_despachadas, orc_resultados, orc_eventos,
                   orc_error, orc_salida, episodios, aprendizaje, wm>>
    /\ UNCHANGED <<varsMET, varsOtros>>

(***************************************************************************)
(* Replanning: a rejected plan is replaced by a new candidate at most      *)
(* max_intentos_replanificacion times; then the planner raises.            *)
(***************************************************************************)
PlnReplanificar ==
    /\ orc_pc = "pln_rechazado"
    /\ IF pln_intentos < MaxIntentosReplanificacion
         THEN /\ pln_intentos' = pln_intentos + 1
              /\ pln_candidato' = <<>>
              /\ orc_pc' = "pln_generar"
              /\ UNCHANGED <<orc_error, pln_errores>>
         ELSE /\ Lanzar("PlanningError")
              /\ UNCHANGED <<pln_candidato, pln_errores, pln_intentos>>
    /\ UNCHANGED <<orc_plan, orc_idx, orc_despachadas, orc_resultados, orc_eventos,
                   orc_salida, episodios, aprendizaje, wm>>
    /\ UNCHANGED <<varsMET, varsOtros>>

\* _fase_planificacion, end: sm3.guardar_contexto(session_id, 'plan_actual', plan)
OrcGuardarPlan ==
    /\ orc_pc = "guardar_plan"
    /\ \E falla \in BOOLEAN :
         IF falla THEN Lanzar("StoreError_plan") /\ UNCHANGED <<wm, orc_idx>>
         ELSE /\ wm' = wm \cup {<<"plan_actual", 0>>}
              /\ orc_idx' = 1
              /\ orc_pc' = "ejecucion"
              /\ UNCHANGED orc_error
    /\ UNCHANGED <<orc_plan, orc_despachadas, orc_resultados, orc_eventos,
                   orc_salida, episodios, aprendizaje>>
    /\ UNCHANGED <<varsMET, varsPLN, varsOtros>>


(***************************************************************************)
(* _fase_ejecucion.  The fields of a task that nothing reads before the    *)
(* task is dispatched (tipo, max_reintentos, critica) and the behaviour of *)
(* its tool are fixed at the dispatch.                                     *)
(***************************************************************************)
GuionOk == [fallos |-> 0, error |-> "timeout", luego |-> "ok"]
GuionFalla == [fallos |-> 0, error |-> "timeout", luego |-> "timeout"]

TareaParaMET(tipo, maxr) ==
    [claves |-> ClavesRequeridas, tipo |-> tipo, query |-> TRUE, herr_ok |-> TRUE,
     max_reintentos |-> maxr]

\* the context dict built by _fase_ejecucion: session_id and contexto_plan
ContextoORC == [nulo |-> FALSE, reintento_actual |-> Ausente]

OrcDespachar ==
    /\ orc_pc = "ejecucion"
    /\ orc_idx <= Len(orc_plan)
    /\ met_pc = "inactivo"
    /\ \E tipo \in Tipos, maxr \in {0, Ausente}, g \in {GuionOk, GuionFalla}, critica \in BOOLEAN :
         /\ IniciarLlamada(TareaParaMET(tipo, maxr), ContextoORC, g)
         /\ orc_despachadas' = Append(orc_despachadas,
                                      [id |-> orc_plan[orc_idx].id, critica |-> critica])
    /\ orc_eventos' = Append(orc_eventos, <<"inicio", orc_plan[orc_idx].id>>)
    /\ orc_pc' = "esperando"
    /\ UNCHANGED <<orc_plan, orc_idx, orc_resultados, orc_error, orc_salida,
                   episodios, aprendizaje, wm>>
    /\ UNCHANGED <<varsPLN, varsOtros>>

\* the frame of ejecutar_tarea is gone
LiberarMET ==
    /\ met_pc' = "inactivo"
    /\ met_tarea' = NoTarea
    /\ met_ctx' = NoCtx
    /\ met_error' = NoError
    /\ met_prof' = 0
    /\ met_res' = NoRes
    /\ met_salida' = NoSalida
    /\ met_guion' = NoGuion
    /\ met_hist' = <<>>
    /\ met_validaciones' = 0
    /\ met_sleeps' = 0
    /\ met_estado' = "ninguno"
    /\ UNCHANGED met_metricas

\* await self.met.ejecutar_tarea(...) resumes: a result record or an exception
OrcRecibir ==
    /\ orc_pc = "esperando"
    /\ met_pc = "fin"
    /\ orc_eventos' = Append(orc_eventos, <<"fin", orc_plan[orc_idx].id>>)
    /\ IF met_salida.tipo = "excepcion"
         THEN /\ Lanzar(met_salida.error)
              /\ UNCHANGED orc_resultados
         ELSE /\ orc_resultados' = Append(orc_resultados, met_salida.res)
              /\ orc_pc' = "guardar_resultado"
              /\ UNCHANGED orc_error
    /\ LiberarMET
    /\ UNCHANGED <<orc_plan, orc_idx, orc_despachadas, orc_salida, episodios, aprendizaje, wm>>
    /\ UNCHANGED <<varsPLN, varsOtros>>

\* a variant with the test on the result inverted (the 'not' left out)
DebeAbortarInvertido(res, critica) == res.exito = "si" /\ critica

\* if not resultado.get('exito', False) and tarea.get('critica', False)
DebeAbortar(res, critica) == res.exito # "si" /\ critica

\* sm3.guardar_contexto(session_id, f"resultado_{id}", resultado), then the check
OrcGuardarResultado ==
    /\ orc_pc = "guardar_resultado"
    /\ \E falla \in BOOLEAN :
         IF falla THEN Lanzar("StoreError_resultado") /\ UNCHANGED <<wm, orc_idx>>
         ELSE /\ wm' = wm \cup {<<"resultado", orc_plan[orc_idx].id>>}
              /\ IF DebeAbortar(orc_resultados[Len(orc_resultados)],
                                orc_despachadas[Len(orc_despachadas)].critica)
                   THEN Lanzar("TareaCriticaFallida") /\ UNCHANGED orc_idx
                   ELSE /\ orc_idx' = orc_idx + 1
                        /\ orc_pc' = "ejecucion"
                        /\ UNCHANGED orc_error
    /\ UNCHANGED <<orc_plan, orc_despachadas, orc_resultados, orc_eventos,
                   orc_salida, episodios, aprendizaje>>
    /\ UNCHANGED <<varsMET, varsPLN, varsOtros>>

\* the for loop is over: return resultados_tareas
OrcFinEjecucion ==
    /\ orc_pc = "ejecucion"
    /\ orc_idx > Len(orc_plan)
    /\ orc_pc' = "recoleccion"
    /\ UNCHANGED <<orc_plan, orc_idx, orc_despachadas, orc_resultados, orc_eventos,
                   orc_error, orc_salida, episodios, aprendizaje, wm>>
    /\ UNCHANGED <<varsMET, varsPLN, varsOtros>>

(***************************************************************************)
(* _fase_recoleccion: sm3.obtener_contexto_completo, then the episode is   *)
(* built (it has no state field) and sm3.guardar_episodio appends it.      *)
(***************************************************************************)
EpisodioNormal ==
    [clase |-> "normal", estado |-> "ausente", diagnostico |-> NoError,
     n_resultados |-> Len(orc_resultados), n_eventos |-> Len(orc_eventos)]

OrcRecolectar ==
    /\ orc_pc = "recoleccion"
    /\ \E falla \in BOOLEAN :
         IF falla THEN Lanzar("StoreError_recoleccion") /\ UNCHANGED episodios
         ELSE /\ episodios' = Append(episodios, EpisodioNormal)
              /\ orc_pc' = "limpieza"
              /\ UNCHANGED orc_error
    /\ UNCHANGED <<orc_plan, orc_idx, orc_despachadas, orc_resultados, orc_eventos,
                   orc_salida, aprendizaje, wm>>
    /\ UNCHANGED <<varsMET, varsPLN, varsOtros>>

(***************************************************************************)
(* sm3.limpiar_sesion; then procesar_objetivo schedules _fase_aprendizaje  *)
(* with the episode id and returns.                                        *)
(***************************************************************************)
\* a variant that schedules the learning phase without the id of the episode
ProgramarAprendizajeSinId(id) == Append(aprendizaje, 0)

\* asyncio.create_task(self._fase_aprendizaje(episodio_id))
ProgramarAprendizaje(id) == Append(aprendizaje, id)

OrcLimpiar ==
    /\ orc_pc = "limpieza"
    /\ \E falla \in BOOLEAN :
         IF falla THEN Lanzar("StoreError_limpieza") /\ UNCHANGED <<wm, aprendizaje, orc_salida>>
         ELSE /\ wm' = {}
              /\ aprendizaje' = ProgramarAprendizaje(Len(episodios))
              /\ orc_salida' = [tipo |-> "retorno", estado |-> "completado",
                                error |-> NoError, episodio_id |-> Len(episodios)]
              /\ orc_pc' = "fin"
              /\ UNCHANGED orc_error
    /\ UNCHANGED <<orc_plan, orc_idx, orc_despachadas, orc_resultados, orc_eventos, episodios>>
    /\ UNCHANGED <<varsMET, varsPLN, varsOtros>>

(***************************************************************************)
(* except Exception as e: await self._registrar_error(session_id, str(e))  *)
(* and raise.  _registrar_error writes the error Episode, state failure,   *)
(* with the error as diagnostic payload.                                   *)
(***************************************************************************)
EpisodioError(e) ==
    [clase |-> "error", estado |-> "failure", diagnostico |-> e,
     n_resultados |-> Len(orc_resultados), n_eventos |-> Len(orc_eventos)]

RegistrarError(e) == episodios' = Append(episodios, EpisodioError(e))

\* a variant that raises a new generic exception instead of the one caught
RelanzarGenerico(e) == "Exception"

\* the bare raise statement re-raises the exception being handled
Relanzar(e) == e

OrcManejarExcepcion ==
    /\ orc_pc = "error"
    /\ RegistrarError(orc_error)
    /\ orc_salida' = [tipo |-> "excepcion", estado |-> "ninguno",
                      error |-> Relanzar(orc_error), episodio_id |-> 0]
    /\ orc_pc' = "fin"
    /\ UNCHANGED <<orc_plan, orc_idx, orc_despachadas, orc_resultados, orc_eventos,
                   orc_error, aprendizaje, wm>>
    /\ UNCHANGED <<varsMET, varsPLN, varsOtros>>

(***************************************************************************)
(* Specifications.  SpecMET: one call of ejecutar_tarea with any task,     *)
(* context and tool behaviour.  SpecORC: one goal through the PERA cycle,  *)
(* with the engine running the dispatched tasks.                           *)
(***************************************************************************)
NextMET == MetLlamar \/ MetValidar \/ MetInvocar \/ MetManejarError \/ MetRetornar

SpecMET == Init /\ [][NextMET]_vars

NextORC ==
    \/ OrcProcesarObjetivo \/ OrcPlanificar \/ PlnGenerar \/ PlnValidar \/ PlnReplanificar
    \/ OrcGuardarPlan \/ OrcDespachar \/ OrcRecibir \/ OrcGuardarResultado
    \/ OrcFinEjecucion \/ OrcRecolectar \/ OrcLimpiar \/ OrcManejarExcepcion
    \/ MetValidar \/ MetInvocar \/ MetManejarError \/ MetRetornar

SpecORC == Init /\ [][NextORC]_vars

NextTMO == TmoLlamar \/ TmoEsperar \/ TmoRetornar \/ TmoVencer

SpecTMO == Init /\ [][NextTMO]_vars

NextMT ==
    \/ MtGuardar \/ MtObtener \/ MtEliminar \/ MtTimerDispara
    \/ MtLimpiarExpirados \/ MtTic

SpecMT == Init /\ [][NextMT]_vars

NextVAL == ValValidar \/ ValOptimizar \/ ValRevalidar

SpecVAL == Init /\ [][NextVAL]_vars


NextEPI == EpiGuardarEsquema \/ EpiGuardarNucleo \/ EpiGuardarLibre \/ EpiObtener

SpecEPI == Init /\ [][NextEPI]_vars

NextIDX == IdxIndexar \/ IdxBuscar

SpecIDX == Init /\ [][NextIDX]_vars

NextMSG ==
    \/ MsgEntregar \/ MsgCallback \/ MsgAck \/ MsgNack \/ MsgSalirProcess \/ MsgSiguiente

SpecMSG == Init /\ [][NextMSG]_vars

NextHB == HbLlamar \/ HbTerminar

SpecHB == Init /\ [][NextHB]_vars

NextAP ==
    \/ ApIniciar \/ ApAnalisisTermina \/ ApReunir \/ ApGenerarRecomendaciones
    \/ ApAplicarOptimizaciones

SpecAP == Init /\ [][NextAP]_vars

NextPREF ==
    \/ PrefConstruir \/ PrefAplicar \/ PrefReaplicar \/ PrefObtenerActual \/ PrefDecidir \/ PrefRetornar

SpecPREF == Init /\ [][NextPREF]_vars

NextHAB ==
    \/ HabConstruir \/ HabRegistrarEjecucion \/ HabActualizarHabilidad

SpecHAB == Init /\ [][NextHAB]_vars

NextHIB ==
    \/ HibDescomponerConHabilidades \/ HibDescomponerPorRazonamiento \/ HibCombinar

SpecHIB == Init /\ [][NextHIB]_vars

NextREG ==
    \/ RegRegistrarHerramienta \/ RegObtenerPorTipoTarea

SpecREG == Init /\ [][NextREG]_vars

NextRTY ==
    \/ RtyEjecutarConReintentos
    \/ RtyIntento
    \/ RtyAgotado
    \/ RtyOtraVez

SpecRTY == Init /\ [][NextRTY]_vars

NextTRC ==
    \/ TrcIniciarTrace
    \/ TrcAgregarSpan
    \/ TrcFinalizarSpan
    \/ TrcFinalizarTrace

SpecTRC == Init /\ [][NextTRC]_vars

NextRGM ==
    \/ RgmRegistrarMetadatos

SpecRGM == Init /\ [][NextRGM]_vars

NextBUF ==
    \/ BufAgregarTarea \/ BufObtenerTarea \/ BufLimpiarCompletadas

SpecBUF == Init /\ [][NextBUF]_vars

NextGEC ==
    \/ GecEntrar
    \/ GecAdquirido
    \/ GecNoAdquirido
    \/ GecSalir

SpecGEC == Init /\ [][NextGEC]_vars

NextCCH ==
    \/ CchConstruir \/ CchConsultarPlanesSimilares

SpecCCH == Init /\ [][NextCCH]_vars

NextSES ==
    \/ SesTic
    \/ SesCrearSesion
    \/ SesUsarSesion
    \/ SesLimpiarSesionesExpiradas

SpecSES == Init /\ [][NextSES]_vars

(***************************************************************************)
(* Properties of ModuloEjecucionTareas.ejecutar_tarea, checked under       *)
(* SpecMET.                                                                *)
(***************************************************************************)
Termino == met_pc = "fin"

RetornoFallo == met_salida.tipo = "resultado" /\ met_salida.res.exito = "no"

\* C1: ejecutar_tarea never propagates an exception: whatever the task, the
\* context (omitted included) and the tool's outcome, the call ends with a
\* result record, and when an error occurred that record has success = false.
C1_NuncaPropaga ==
    Termino => /\ met_salida.tipo = "resultado"
               /\ (met_error # NoError => met_salida.res.exito = "no")

\* C2: a task that fails validation yields a failure result at once: nothing
\* is slept, the tool is never invoked and the task is validated only once.
C2_InvalidaSinReintento ==
    (Termino /\ ValidarTarea(met_tarea) # "valida")
        => /\ RetornoFallo
           /\ met_sleeps = 0
           /\ met_hist = <<>>
           /\ met_validaciones = 1

\* C3: when the task fails with an error classified as non-recoverable
\* (authentication, resource not found, tool not found) the tool is invoked
\* at most once and the failure is returned as a result, without retry.
ErroresNoRecuperables == {"auth", "no_encontrado", "sin_herramienta"}

C3_NoRecuperableSinReintento ==
    (Termino /\ met_error \in ErroresNoRecuperables /\ ~EsRecuperable(met_error))
        => /\ Len(met_hist) <= 1
           /\ met_sleeps = 0
           /\ RetornoFallo

\* C4: when the tool of a valid task fails with a recoverable error exactly
\* max_retries times and then succeeds, the call returns a success result
\* whose retry count is max_retries, after max_retries + 1 invocations.
FallaYLuegoExito ==
    /\ ValidarTarea(met_tarea) = "valida"
    /\ met_tarea.herr_ok
    /\ ~met_ctx.nulo
    /\ ReintentoActual(met_ctx) = met_sleeps   \* the call started with no retry made
    /\ met_guion.fallos >= 1
    /\ met_guion.fallos = MaxReintentosDe(met_tarea)
    /\ EsRecuperable(met_guion.error)
    /\ met_guion.luego = "ok"

C4_ExitoTrasReintentos ==
    (Termino /\ FallaYLuegoExito)
        => /\ met_salida.tipo = "resultado"
           /\ met_salida.res.exito = "si"
           /\ met_salida.res.reintentos = MaxReintentosDe(met_tarea)
           /\ Len(met_hist) = MaxReintentosDe(met_tarea) + 1

\* C5: when the tool of a valid task fails with a recoverable error on every
\* attempt, the tool is invoked at most max_retries + 1 times and the call
\* then returns a task failure.
FallaSiempre ==
    /\ ValidarTarea(met_tarea) = "valida"
    /\ met_tarea.herr_ok
    /\ ~met_ctx.nulo
    /\ met_guion.fallos >= 1
    /\ EsRecuperable(met_guion.error)
    /\ met_guion.luego = met_guion.error

C5_ReintentosAcotados ==
    /\ (FallaSiempre /\ met_pc # "inactivo") => Len(met_hist) <= MaxReintentosDe(met_tarea) + 1
    /\ (FallaSiempre /\ Termino) => RetornoFallo


(***************************************************************************)
(* Properties of NucleoSAAM.procesar_objetivo, checked under SpecORC.      *)
(***************************************************************************)
\* the dependencies the executed plan gives to the task with this id
DependenciasDe(id) ==
    UNION { orc_plan[i].dependencias : i \in { j \in DOMAIN orc_plan : orc_plan[j].id = id } }

\* C6: no task is started before every task it depends on has completed: each
\* start of a task comes after the end of each of its dependencies.
C6_DependenciasAntes ==
    \A k \in DOMAIN orc_eventos :
        orc_eventos[k][1] = "inicio"
            => \A d \in DependenciasDe(orc_eventos[k][2]) :
                   \E j \in 1..(k - 1) : orc_eventos[j] = <<"fin", d>>

UltimoEpisodio == episodios[Len(episodios)]

TerminoConFallo ==
    /\ orc_salida.tipo = "excepcion"
    /\ episodios # <<>>
    /\ UltimoEpisodio.estado = "failure"

RECURSIVE SinHojas(_, _)
SinHojas(plan, S) ==
    LET R == {i \in S : \E j \in S : plan[j].id \in plan[i].dependencias}
    IN IF R = S THEN S ELSE SinHojas(plan, R)

\* a plan has a cycle exactly when some non-empty set of its tasks is closed
\* backwards (every task of the set depends on a task of the set), that is
\* when taking the leaves away never empties the plan
TieneCiclo(plan) == SinHojas(plan, DOMAIN plan) # {}

C9_UnEpisodio ==
    /\ orc_pc = "fin" => Len(episodios) = 1
    /\ episodios # <<>> => (met_pc = "inactivo" /\ orc_pc # "esperando")

\* the exceptions that come out of the execution engine
ErroresDeEXE == {"NameError", "AttributeError"}

ErroresDeSistema ==
    {"StoreError_planificacion", "StoreError_plan", "StoreError_resultado",
     "StoreError_recoleccion", "StoreError_limpieza"}

\* C11: learning is scheduled only after the goal's Episode was recorded and
\* with that Episode's id; it is scheduled when the goal returns, all tasks
\* successful or not, and never when the goal ended in a system-level error.
C11_AprendizajeTrasEpisodio ==
    /\ \A k \in DOMAIN aprendizaje :
           /\ aprendizaje[k] \in DOMAIN episodios
           /\ episodios[aprendizaje[k]].clase = "normal"
    /\ (orc_pc = "fin" /\ orc_salida.tipo = "retorno")
           => /\ aprendizaje = <<orc_salida.episodio_id>>
              /\ orc_salida.episodio_id = Len(episodios)
    /\ (orc_pc = "fin" /\ orc_error \in ErroresDeSistema) => aprendizaje = <<>>

\* a goal that returned although one of its tasks failed
C11_Testigo ==
    /\ orc_pc = "fin"
    /\ orc_salida.tipo = "retorno"
    /\ \E i \in DOMAIN orc_resultados : orc_resultados[i].exito = "no"
    /\ \E i \in DOMAIN orc_resultados : orc_resultados[i].exito = "si"
    /\ aprendizaje = <<1>>


TareasExitosas ==
    Cardinality({i \in DOMAIN orc_resultados : orc_resultados[i].exito = "si"})

CriticasExitosas ==
    \A i \in DOMAIN orc_resultados :
        orc_despachadas[i].critica => orc_resultados[i].exito = "si"

\* the fraction of successful tasks is at least 0.7
RazonSuficiente == 10 * TareasExitosas >= 7 * Len(orc_resultados)

\* C12: the state returned for a goal is completed if and only if every
\* critical task succeeded and the fraction of successful tasks is at least
\* the threshold 0.7.
C12_EstadoGlobal ==
    (orc_pc = "fin" /\ orc_salida.tipo = "retorno")
        => (orc_salida.estado = "completado" <=> (CriticasExitosas /\ RazonSuficiente))

\* C13: whenever the selected tool returns normally, the result record that
\* ejecutar_tarea returns carries success = true.
C13_ExitoVerdadero ==
    (Termino /\ met_hist # <<>> /\ met_hist[Len(met_hist)] = "ok")
        => (met_salida.tipo = "resultado" /\ met_salida.res.exito = "si")


(***************************************************************************)
(* Properties of _ejecutar_con_timeout, checked under SpecTMO.             *)
(***************************************************************************)
\* C14: for every tool, coroutine or blocking, an execution that runs longer
\* than the deadline ends the attempt with a Timeout outcome, and the engine
\* never waits past the deadline.
C14_NuncaEsperaMasDelPlazo ==
    /\ tmo_pc # "inactivo" => tmo_espera <= tmo_timeout
    /\ (tmo_pc = "fin" /\ tmo_duracion > tmo_timeout) => tmo_desenlace = "timeout"

\* C34: when ejecutar_tarea has ended, the task is counted exactly once in
\* the engine's metrics, in tareas_completadas when the result returned is a
\* success and in tareas_fallidas otherwise, and its recorded state agrees.
C34_ContadaUnaVez ==
    met_pc = "fin" =>
        LET exito == met_salida.tipo = "resultado" /\ met_salida.res.exito # "no"
        IN /\ met_metricas.tareas_completadas = (IF exito THEN 1 ELSE 0)
           /\ met_metricas.tareas_fallidas = (IF exito THEN 0 ELSE 1)
           /\ met_estado = (IF exito THEN "completada" ELSE "fallida")

(***************************************************************************)
(* Properties of MemoriaTrabajo, checked under SpecMT.                     *)
(***************************************************************************)
\* C15: once an entry is older than the ttl (the time since its creation
\* exceeds timeout), obtener on its key returns absent, whatever reads
\* happened before and whether or not the cleaner has run.
C15_ExpiradoAusente ==
    mt_lectura.edad > TimeoutMT => ~mt_lectura.hallado

\* C33: a value saved with a per-key expiration stays readable until its own
\* expiration elapses: a timer removes a key only when it is the timer of the
\* guardar that stored the value the key holds now, never the timer of an
\* earlier guardar of the same key.
C33_TimerPropio ==
    [][\A t \in mt_timers :
           (t \notin mt_timers' /\ t[1] \in mt_almacen /\ t[1] \notin mt_almacen')
               => t[3] = mt_ts_creacion[t[1]]]_vars

\* C16: once procesar_objetivo has finished for a session, by returning or by
\* raising, no entry written for the session is left in the Working Store.
C16_SinEntradasAlTerminar ==
    orc_pc = "fin" => wm = {}


(***************************************************************************)
(* Properties of the planner, checked under SpecORC.                       *)
(***************************************************************************)
\* what the validation rules require of a plan, stated on the plan itself
PlanBienFormado(plan) ==
    /\ Len(plan) > 0
    /\ ~TieneCiclo(plan)
    /\ \A i \in DOMAIN plan : plan[i].herramienta \in HerramientasDisponibles

IdsDe(plan) == { plan[i].id : i \in DOMAIN plan }

\* C18: every plan accepted by plan validation satisfies deps(T) within
\* ids(P.tasks) for each of its tasks T.
C18_DependenciasEnElPlan ==
    (val_pc # "inactivo" /\ val_res.errores = {})
        => \A i \in DOMAIN val_plan : val_plan[i].dependencias \subseteq IdsDe(val_plan)

\* C19: the tool rule passes exactly when every task's tool selector is a
\* known tool or the selector 'auto'.
C19_ReglaHerramientas ==
    val_pc # "inactivo"
        => ("recursos_disponibles" \notin val_res.errores
              <=> \A i \in DOMAIN val_plan :
                      val_plan[i].herramienta \in HerramientasDisponibles \cup {"auto"})

C21_ChecksumIntegro ==
    \A id \in DOMAIN epi_tabla : ValidarChecksum(DbADict(epi_tabla[id]))

\* C22: the episode read back by the id that the append returned is the
\* record that was appended: every key supplied comes back with its value,
\* and nothing comes back that was not supplied, except the creation time
\* the table adds.
C22_LeeLoAnexado ==
    (epi_leido.hallado /\ epi_ret = epi_leido.id)
        => /\ \A c \in DOMAIN epi_entrada :
                c \in DOMAIN epi_leido.episodio /\ epi_leido.episodio[c] = epi_entrada[c]
           /\ (DOMAIN epi_leido.episodio \ DOMAIN epi_entrada) \subseteq {"timestamp_creacion"}

(***************************************************************************)
(* Properties of IndexadorEpisodios, checked under SpecIDX.                *)
(***************************************************************************)
\* an indexed episode meets a criterion of the search
CumpleEstado(e, c) == c.estado # SinCriterio => e.estado_global = c.estado

CumpleObjetivo(e, c) ==
    c.objetivo_contiene # <<SinCriterio>>
        => LET buscados == ExtraerTokens(c.objetivo_contiene)
               propios == ExtraerTokens(e.objetivo)
           IN /\ buscados # <<>>
              /\ \A i \in DOMAIN buscados : \E j \in DOMAIN propios : propios[j] = buscados[i]

CumpleSesion(e, c) == c.session_id # SinCriterio => e.session_id = c.session_id

CumpleFecha(e, c) == c.fecha # SinCriterio => e.fecha = c.fecha

CumpleRendimiento(e, c) ==
    c.rendimiento_minimo # Ausente
        => CategorizarRendimiento(PuntuacionGlobal(e))
               \in { CategorizarRendimiento(r) : r \in c.rendimiento_minimo..10 }

\* C23: for every non-empty combination of criteria, buscar_episodios returns
\* exactly the ids of the indexed episodes that meet every criterion given:
\* the state, all the goal terms, the session, the date and the performance
\* band.
C23_BusquedaExacta ==
    (idx_busqueda.hecha /\ ~SinCriterios(idx_busqueda.criterios))
        => idx_busqueda.ids =
             { idx_episodios[i].id : i \in { j \in DOMAIN idx_episodios :
                 /\ CumpleEstado(idx_episodios[j], idx_busqueda.criterios)
                 /\ CumpleObjetivo(idx_episodios[j], idx_busqueda.criterios)
                 /\ CumpleSesion(idx_episodios[j], idx_busqueda.criterios)
                 /\ CumpleFecha(idx_episodios[j], idx_busqueda.criterios)
                 /\ CumpleRendimiento(idx_episodios[j], idx_busqueda.criterios) } }

(***************************************************************************)
(* Properties of SistemaMensajeria.consumir_mensajes, checked under        *)
(* SpecMSG.                                                                *)
(***************************************************************************)
\* C24: every consumed message is acknowledged exactly once: positively when
\* the callback completed, negatively (without requeue) when it failed; never
\* twice, never both ways.
C24_UnSoloAcuse ==
    /\ msg_acks + msg_nacks <= 1
    /\ msg_pc = "hecho"
         => /\ msg_acks + msg_nacks = 1
            /\ msg_falla => msg_nacks = 1
            /\ ~msg_falla => msg_acks = 1

C27_PreferenciaIdempotente ==
    /\ \A i \in DOMAIN pref_escrituras :
         /\ pref_escrituras[i].mejora >= UmbralMejora
         /\ pref_escrituras[i].antes # pref_escrituras[i].nueva
    /\ \A t \in pref_cambios[1] :
         /\ pref_almacen[t] = pref_optimizaciones[t].herramienta_recomendada
         /\ \A i \in DOMAIN pref_escrituras :
              ~(pref_escrituras[i].corrida = 2 /\ pref_escrituras[i].tipo = t)

C29_HibridaUneSinDuplicar ==
    /\ (hib_plan_habilidades.definido /\ hib_pc \in {"razonamiento", "combinar", "fin"}
        /\ hib_plan_habilidades.confianza >= UmbralConfianzaHibrida) =>
         hib_retorno = Retorna(hib_plan_habilidades)
    /\ (hib_pc = "fin" /\ hib_plan_razonamiento.definido) =>
         /\ hib_retorno.estado = "retorna"
         /\ IdsDe(hib_retorno.plan.tareas) =
              (IF hib_plan_habilidades.definido
                 THEN IdsDe(hib_plan_habilidades.tareas) ELSE {})
                \cup IdsDe(hib_plan_razonamiento.tareas)
         /\ \A i, j \in DOMAIN hib_retorno.plan.tareas :
              hib_retorno.plan.tareas[i].id = hib_retorno.plan.tareas[j].id => i = j

\* C38: when descomponer_con_habilidades raises and the reasoning step
\* answers, descomponer_hibrido returns a plan with the tasks of the
\* reasoning plan instead of failing.
C38_CaeAlRazonamiento ==
    (hib_pc = "fin" /\ ~hib_plan_habilidades.definido /\ hib_plan_razonamiento.definido) =>
        /\ hib_retorno.estado = "retorna"
        /\ hib_retorno.plan.tareas = hib_plan_razonamiento.tareas

(***************************************************************************)
(* Properties of RegistroHerramientas, checked under SpecREG.              *)
(***************************************************************************)
\* the fitness score as stated: 0.5, plus 0.3 x (success rate - 0.5), plus 0.1
\* when the successful executions are at least 10
IdoneidadEnunciada(metricas) ==
    500 + ((O(metricas.tasa_exito, 5) * 100 - 500) * 3) \div 10
        + (IF metricas.ejecuciones_exitosas >= 10 THEN 100 ELSE 0)

\* C30: the list returned for a task type is ranked by the fitness score: the
\* score of every entry is the stated one, and no entry is preceded by an
\* entry with a strictly lower score.
C30_ListaPorIdoneidad ==
    \A j \in DOMAIN reg_lista :
        /\ reg_lista[j].idoneidad = IdoneidadEnunciada(reg_lista[j].metricas)
        /\ \A i \in 1..(j - 1) : reg_lista[i].idoneidad >= reg_lista[j].idoneidad

(***************************************************************************)
(* Properties of MecanismoReintentos, checked under SpecRTY.               *)
(***************************************************************************)
\* C31: under exponential backoff with base delay 2 s and factor 2, the delay
\* slept before the first retry is 2 s and the one before the second retry
\* is 4 s.
C31_RetardosDosCuatro ==
    (rty.estrategia.backoff = "exponencial" /\ rty.estrategia.delay = 2
     /\ rty.estrategia.base = 2) =>
        /\ Len(rty.sleeps) >= 1 => rty.sleeps[1] = 2
        /\ Len(rty.sleeps) >= 2 => rty.sleeps[2] = 4

(***************************************************************************)
(* Properties of TracingIntegrado, checked under SpecTRC.                  *)
(***************************************************************************)
\* C32: a trace that finalizar_trace has returned is no longer active, and
\* every span recorded in it is finalized: its duration and its success flag
\* are set.
C32_TraceCierraSpans ==
    trc.retornado # SinTrace =>
        /\ trc.retornado.trace_id \notin DOMAIN trc.traces_activos
        /\ \A i \in DOMAIN trc.retornado.spans :
             /\ ~trc.retornado.spans[i].duracion_none
             /\ trc.retornado.spans[i].exito # "sin_fijar"


(***************************************************************************)
(* Properties of RegistradorMetadatos, checked under SpecRGM.              *)
(***************************************************************************)
\* C35: every record given to registrar_metadatos is persisted to memory at
\* most once: a flush that failed part-way never makes a later flush store
\* again a record that memoria already holds.
C35_PersistidoUnaVez ==
    \A n \in DOMAIN rgm.episodios : rgm.episodios[n] <= 1


(***************************************************************************)
(* Properties of BufferTareas, checked under SpecBUF.                      *)
(***************************************************************************)
\* C36: whatever agregar_tarea and limpiar_completadas calls came before,
\* obtener_tarea(id) returns None or an entry whose tarea_id is id.
C36_ObtenerDevuelveLaPedida ==
    buf.retorno.valor # SinEntrada => buf.retorno.valor.tarea_id = buf.retorno.pedido


(***************************************************************************)
(* Properties of GestorEstadoCompartido, checked under SpecGEC.            *)
(***************************************************************************)
\* C37: a caller inside the protected block of a resource still holds the
\* lock of that resource: nobody else released it, so at most one caller is
\* inside the block of a resource at a time.
C37_ExclusionMutua ==
    /\ \A c \in LlamadoresGEC :
          gec.pc[c] = "dentro" => gec.locks[gec.recurso[c]] = c
    /\ \A c, d \in LlamadoresGEC :
          (gec.pc[c] = "dentro" /\ gec.pc[d] = "dentro" /\ gec.recurso[c] = gec.recurso[d])
              => c = d


(***************************************************************************)
(* Properties of the similar-plan cache, checked under SpecCCH.            *)
(***************************************************************************)
\* C39: what _consultar_planes_similares returns for a goal was computed for
\* that goal: no plan made for another goal comes out of the cache.
C39_CacheDelMismoObjetivo ==
    \A i \in DOMAIN cch.retorno.planes :
        cch.retorno.planes[i].objetivo = cch.retorno.objetivo


(***************************************************************************)
(* Properties of GestorSesiones, checked under SpecSES.                    *)
(***************************************************************************)
\* C40: right after limpiar_sesiones_expiradas no session that has been
\* inactive for longer than timeout_sesion is left in sesiones_activas.
C40_ExpiradasEliminadas ==
    gse.ultima = "limpiar" =>
        \A s \in DOMAIN gse.sesiones_activas :
            gse.reloj - gse.sesiones_activas[s].ultimo_acceso <= TimeoutSesionSES

=============================================================================
